---- MODULE Spec2Model ----
(***************************************************************************)
(* A model of the scoring and aggregation engine of the AI-visibility      *)
(* backend: AIAnalyzer (src/src/services/ai_analyzer.py) and URLAnalyzer   *)
(* (src/src/services/url_analyzer.py).                                     *)
(*                                                                         *)
(* Numbers.  Python computes the scores in double precision; the model     *)
(* computes them as exact rationals <<n, d>> (d > 0, lowest terms).        *)
(*                                                                         *)
(* Texts.  A str is modelled by what the analyzer reads from it: the       *)
(* number of whitespace-separated words (len(s.split())), the number of    *)
(* '.' characters (len(s.split('.')) - 1), the number of occurrences of    *)
(* the company name (s.lower().count(name.lower())), the bag of marker     *)
(* phrases occurring in it (marker -> number of occurrences), and the      *)
(* matches of the two regular expressions of _extract_sources (each match  *)
(* abstracted to whether it contains a known-credible domain).             *)
(***************************************************************************)
EXTENDS Integers, Sequences, FiniteSets, Bags, TLC

VARIABLES
    pc,               \* where the session is: idle, query, sleep, insights, done, url_done
    run,              \* which call of analyze_company is running (1 or 2)
    company_name,     \* argument of analyze_company
    pi,               \* index in self.platforms of the platform being analysed
    mi,               \* index in self.methodologies of the methodology being scored
    qi,               \* index of the next query of the methodology
    total_score,      \* _calculate_cidr_score: total_score
    scores,           \* _analyze_platform: scores
    platform_scores,  \* analyze_company: platform_scores
    insights,         \* analyze_company: insights (None before it is generated)
    signals,          \* detector outputs computed for the latest response
    queries,          \* number of provider queries sent by the running call
    deviations,       \* provider answers of the first call that are not the usual text
    memo,             \* what the provider answered to each (platform, methodology, query)
    failed,           \* (platform, methodology) pairs one of whose provider calls failed
    first_result,     \* value returned by the first call of analyze_company
    url_input,        \* argument of analyze_url and what the fetch met
    url_result,       \* value returned by analyze_url
    resp,             \* the response text the detectors were last applied to
    readability_scores, \* _score_content_quality: what _get_readability_scores returned
    word,             \* _count_syllables: its argument, a string of characters
    count,            \* _count_syllables: count
    company_analyses, \* the rows of the CompanyAnalysis table, in the order of their ids
    handlers,         \* POST /analyze: where each request is, and the response it got
    now,              \* datetime.utcnow(), in hours
    analyzer_runs,    \* how often AIAnalyzer.analyze_company ran for each company name
    interactions,     \* the rows of the ai_interactions table, in the order of their ids
    flashed           \* what the latest request to main.py answered

vars == <<pc, run, company_name, pi, mi, qi, total_score, scores, platform_scores,
          insights, signals, queries, deviations, memo, failed, first_result, url_input, url_result,
          resp, readability_scores, word, count, company_analyses, handlers, now,
          analyzer_runs, interactions, flashed>>

\* the state of AIAnalyzer and URLAnalyzer
analyzerVars == <<pc, run, company_name, pi, mi, qi, total_score, scores, platform_scores,
                  insights, signals, queries, deviations, memo, failed, first_result,
                  url_input, url_result, resp, readability_scores>>

\* the state of the Flask routes: the two tables, the requests, the clock
routeVars == <<company_analyses, handlers, now, analyzer_runs, interactions, flashed>>

\* the state outside AIAnalyzer.analyze_company and URLAnalyzer.analyze_url
otherVars == <<word, count, company_analyses, handlers, now, analyzer_runs, interactions,
               flashed>>

(***************************************************************************)
(* Bounds of the model.                                                    *)
(***************************************************************************)
\* how many provider answers of one analysis may differ from the usual text
MaxDeviations == 1

\* how many entries of a score table given to _generate_insights differ from the rest
MaxOutliers == 2

\* the longest response text, in words, the detectors are applied to
MaxWords == 201

\* how many marker words a response text holds at most
MaxMarkers == 3

\* how many sources a response text names at most
MaxSources == 5

\* how many characters a word given to _count_syllables holds at most
MaxLetters == 4

\* how many POST /analyze requests are handled, possibly at the same time
MaxRequests == 2

\* how far the clock runs, in hours
MaxHours == 36

\* how many rows the ai_interactions table holds at most
MaxInteractions == 3

(***************************************************************************)
(* Exact rational arithmetic.                                              *)
(***************************************************************************)
RECURSIVE GCD(_, _)
GCD(a, b) == IF b = 0 THEN a ELSE GCD(b, a % b)

Abs(n) == IF n < 0 THEN -n ELSE n

Frac(n, d) == LET g == GCD(Abs(n), d) IN IF g = 0 THEN <<0, 1>> ELSE <<n \div g, d \div g>>

R(n) == <<n, 1>>

RAdd(x, y) ==
    LET g == GCD(x[2], y[2])
    IN  Frac(x[1] * (y[2] \div g) + y[1] * (x[2] \div g), (x[2] \div g) * y[2])

RDiv(x, k) == Frac(x[1], x[2] * k)

RMul(x, k) == Frac(x[1] * k, x[2])

\* comparisons: the integer parts first, then the fractional parts, which keeps the
\* products small
RLt(x, y) ==
    LET qx == x[1] \div x[2]
        qy == y[1] \div y[2]
    IN  \/ qx < qy
        \/ qx = qy /\ (x[1] % x[2]) * y[2] < (y[1] % y[2]) * x[2]

RLeq(x, y) == ~RLt(y, x)

\* Python's min(a, b) and max(a, b): the first argument unless the second is smaller/larger
RMin(x, y) == IF RLt(y, x) THEN y ELSE x

RMax(x, y) == IF RLt(x, y) THEN y ELSE x

InRange(x) == RLeq(R(0), x) /\ RLeq(x, R(100))

\* format(x, '.1f'): x rounded to one decimal, ties to even; the result in tenths
Fmt1(x) ==
    LET n == 10 * x[1]
        q == n \div x[2]
        r == n % x[2]
    IN  IF 2 * r < x[2] THEN q
        ELSE IF 2 * r > x[2] THEN q + 1
        ELSE IF q % 2 = 0 THEN q ELSE q + 1

RECURSIVE SumSeq(_)
SumSeq(s) == IF s = <<>> THEN R(0) ELSE RAdd(Head(s), SumSeq(Tail(s)))

EmptyDict == [k \in {} |-> 0]

\* Python's None
None == "None"

(***************************************************************************)
(* Texts and the lexical signal detectors (ai_analyzer.py, 227-364).       *)
(***************************************************************************)
Piece(w, d, m, o, u, h) ==
    [kind |-> "str", words |-> w, dots |-> d, mentions |-> m, occ |-> o, urls |-> u, hosts |-> h]

\* a literal piece of text: w words, d dots, the markers o, no mention and no source
Lit(w, d, o) == Piece(w, d, 0, o, <<>>, <<>>)

\* the value None, returned where a str is expected
NoneValue == [kind |-> "none"]

\* concatenation of two pieces of text that no marker and no word straddles
Cat2(a, b) ==
    Piece(a.words + b.words, a.dots + b.dots, a.mentions + b.mentions,
          a.occ (+) b.occ, a.urls \o b.urls, a.hosts \o b.hosts)

RECURSIVE Cat(_)
Cat(ps) == IF Len(ps) = 1 THEN ps[1] ELSE Cat2(ps[1], Cat(Tail(ps)))

\* sum(1 for word in words if word in response.lower())
CountPresent(markers, t) == Cardinality({m \in markers : BagIn(m, t.occ)})

uncertainty_words == {"might", "could", "possibly", "unclear", "unknown"}
confidence_words == {"established", "founded", "known for", "specializes"}
context_indicators == {"industry", "market", "competitors", "sector", "business"}
structure_indicators == {"first", "second", "additionally", "furthermore", "in conclusion"}
key_phrases == {"founded", "established", "specializes", "offers", "provides", "known for"}
positive_words == {"excellent", "leading", "innovative", "successful", "trusted", "reliable"}
negative_words == {"poor", "failing", "problematic", "controversial", "declining"}
action_words == {"visit", "contact", "learn more", "explore", "discover", "check out"}
follow_up_indicators == {"more information", "details", "specific", "particular", "additional"}

analyze_relevance(t) ==
    IF t.words = 0 THEN R(0)
    ELSE LET den == RMax(R(1), Frac(t.words, 50))
             ratio == Frac(t.mentions * den[2], den[1])
         IN  RMul(RMin(R(1), ratio), 100)

\* _analyze_completeness with <= in the place of < at the tier boundaries
analyze_completeness_inclusive(t) ==
    IF t.words <= 20 THEN R(30)
    ELSE IF t.words <= 50 THEN R(60)
    ELSE IF t.words <= 200 THEN R(90)
    ELSE R(100)

analyze_completeness(t) ==
    IF t.words < 20 THEN R(30)
    ELSE IF t.words < 50 THEN R(60)
    ELSE IF t.words < 200 THEN R(90)
    ELSE R(100)

analyze_accuracy(t) ==
    IF CountPresent(uncertainty_words, t) > CountPresent(confidence_words, t)
    THEN R(60) ELSE R(85)

analyze_context(t) == RMin(R(100), R(CountPresent(context_indicators, t) * 20))

\* response.split('.') has one piece more than the text has dots, so it is never empty
analyze_readability(t) ==
    IF t.words = 0 THEN R(50)
    ELSE LET avg == Frac(t.words, t.dots + 1)
         IN  IF RLeq(R(10), avg) /\ RLeq(avg, R(25)) THEN R(90)
             ELSE IF RLeq(R(5), avg) /\ RLeq(avg, R(35)) THEN R(70)
             ELSE R(50)

analyze_structure_quality(t) ==
    RMin(R(100), R(CountPresent(structure_indicators, t) * 25 + 50))

analyze_summarizability(t) == RMin(R(100), R(CountPresent(key_phrases, t) * 20 + 40))

\* _analyze_sentiment with >= in the place of > in its first test
analyze_sentiment_ties_positive(t) ==
    LET positive_count == CountPresent(positive_words, t)
        negative_count == CountPresent(negative_words, t)
    IN  IF positive_count >= negative_count THEN R(80)
        ELSE IF negative_count > positive_count THEN R(40)
        ELSE R(60)

analyze_sentiment(t) ==
    LET positive_count == CountPresent(positive_words, t)
        negative_count == CountPresent(negative_words, t)
    IN  IF positive_count > negative_count THEN R(80)
        ELSE IF negative_count > positive_count THEN R(40)
        ELSE R(60)

analyze_actionability(t) == RMin(R(100), R(CountPresent(action_words, t) * 30 + 50))

analyze_follow_up_potential(t) ==
    RMin(R(100), R(CountPresent(follow_up_indicators, t) * 25 + 60))

\* urls + domains: the matches of the URL pattern, then those of the domain pattern
extract_sources(t) == t.urls \o t.hosts

\* _analyze_source_credibility with // in the place of /
analyze_source_credibility_floor(sources) ==
    IF sources = <<>> THEN R(40)
    ELSE LET credible_count == Cardinality({i \in 1..Len(sources) : sources[i]})
         IN  RMin(R(100), R((credible_count \div Len(sources)) * 100 + 40))

analyze_source_credibility(sources) ==
    IF sources = <<>> THEN R(40)
    ELSE LET credible_count == Cardinality({i \in 1..Len(sources) : sources[i]})
         IN  RMin(R(100), RAdd(Frac(credible_count * 100, Len(sources)), R(40)))

\* _analyze_verifiability without min(100, ...)
analyze_verifiability_uncapped(sources) ==
    IF sources = <<>> THEN R(30)
    ELSE R(Len(sources) * 15 + 40)

analyze_verifiability(sources) ==
    IF sources = <<>> THEN R(30)
    ELSE RMin(R(100), R(Len(sources) * 15 + 40))

(***************************************************************************)
(* Company names, query texts and provider answers.                        *)
(***************************************************************************)
\* self.platforms sorted by name
platforms_by_name == <<"arc_search", "chatgpt", "claude", "perplexity", "searchgpt">>

platforms == <<"chatgpt", "claude", "perplexity", "arc_search", "searchgpt">>
methodologies == <<"cidr", "scvs", "acso", "uifl">>

PlatformSet == {platforms[i] : i \in 1..Len(platforms)}
MethodologySet == {methodologies[i] : i \in 1..Len(methodologies)}

\* the company names analysed: one plain word, and a name holding a domain and a marker
CompanyNames == {"Acme", "Booking.com Business"}

\* the company name as a piece of text (it mentions itself once)
Company(c) ==
    IF c = "Acme" THEN Piece(1, 0, 1, EmptyBag, <<>>, <<>>)
    ELSE Piece(2, 1, 1, SetToBag({"business"}), <<>>, <<FALSE>>)

NoMarker == EmptyBag

\* _calculate_cidr_score with a fifth query
CidrQueriesFive(c) ==
    << Cat(<<Lit(2, 0, NoMarker), Company(c), Lit(1, 0, NoMarker)>>),
       Cat(<<Lit(3, 0, NoMarker), Company(c), Lit(1, 0, NoMarker)>>),
       Cat(<<Lit(2, 0, NoMarker), Company(c), Lit(2, 0, SetToBag({"known for"}))>>),
       Cat(<<Lit(2, 0, NoMarker), Company(c), Lit(3, 0, SetToBag({"competitors"}))>>),
       Cat(<<Lit(4, 0, NoMarker), Company(c), Lit(1, 0, NoMarker)>>) >>

\* the four f-strings of _calculate_cidr_score
CidrQueries(c) ==
    << Cat(<<Lit(2, 0, NoMarker), Company(c), Lit(1, 0, NoMarker)>>),
       Cat(<<Lit(3, 0, NoMarker), Company(c), Lit(1, 0, NoMarker)>>),
       Cat(<<Lit(2, 0, NoMarker), Company(c), Lit(2, 0, SetToBag({"known for"}))>>),
       Cat(<<Lit(2, 0, NoMarker), Company(c), Lit(3, 0, SetToBag({"competitors"}))>>) >>

ScvsQuery(c) == Cat(<<Lit(8, 0, SetToBag({"reliable"})), Company(c)>>)

AcsoQuery(c) == Cat(<<Lit(6, 0, NoMarker), Company(c), Lit(2, 0, NoMarker)>>)

UiflQuery(c) == Cat(<<Lit(7, 0, NoMarker), Company(c)>>)

\* the queries a methodology sends, in order
QueriesOf(m, c) ==
    CASE m = "cidr" -> CidrQueries(c)
      [] m = "scvs" -> <<ScvsQuery(c)>>
      [] m = "acso" -> <<AcsoQuery(c)>>
      [] m = "uifl" -> <<UiflQuery(c)>>

\* the simulated providers: fixed sentences around the query and the company name
query_claude(query, c) ==
    Cat(<<Lit(4, 0, NoMarker), query, Lit(6, 1, NoMarker), Company(c), Lit(6, 1, NoMarker)>>)

query_perplexity(query, c) ==
    Cat(<<Lit(4, 0, NoMarker), query, Lit(6, 1, NoMarker), Company(c), Lit(2, 1, NoMarker)>>)

simulate_arc_search(query, c) ==
    Cat(<<Lit(5, 0, NoMarker), query, Lit(8, 1, NoMarker), Company(c), Lit(0, 1, NoMarker)>>)

\* What the OpenAI client may do on one call: return one of three texts, return a
\* completion whose content is None, or raise.
Outcomes == {"general", "sources", "hedged", "none", "raise"}

UsualOutcome == "general"

\* a confident answer of 119 words and 6 sentences that names the company once
GeneralText(c) ==
    Cat(<<Company(c),
          Lit(118, 6, SetToBag({"established", "known for", "industry", "leading",
                                "offers", "first", "visit"}) (+) SetToBag({"industry"}))>>)

\* a list of sources: two URLs of credible sites, three domain matches (the two hosts and
\* the company's own site), hence five sources, four of them credible
SourcesText(c) ==
    Cat(<<Company(c),
          Piece(14, 7, 0, SetToBag({"reliable", "additional"}),
                <<TRUE, TRUE>>, <<TRUE, TRUE, FALSE>>)>>)

\* a short hedged answer with calls to action and three domain matches, one credible
HedgedText(c) ==
    Cat(<<Company(c),
          Piece(29, 5, 0, SetToBag({"might", "could", "possibly", "declining", "visit",
                                    "contact", "learn more", "more information"}),
                <<>>, <<FALSE, TRUE, FALSE>>)>>)

\* f"Error querying OpenAI: {str(e)}" for the message "Connection error."
ErrorText == Lit(5, 1, NoMarker)

\* _query_openai: the except branch turns a raising client into a text
query_openai(outcome, c) ==
    CASE outcome = "general" -> GeneralText(c)
      [] outcome = "sources" -> SourcesText(c)
      [] outcome = "hedged" -> HedgedText(c)
      [] outcome = "none" -> NoneValue
      [] outcome = "raise" -> ErrorText

UsesOpenAI(p) == p \in {"chatgpt", "searchgpt"}

\* the platform dispatch at the head of every _calculate_*_score
QueryPlatform(p, query, c, outcome) ==
    IF UsesOpenAI(p) THEN query_openai(outcome, c)
    ELSE IF p = "claude" THEN query_claude(query, c)
    ELSE IF p = "perplexity" THEN query_perplexity(query, c)
    ELSE simulate_arc_search(query, c)

(***************************************************************************)
(* The methodology scorers (ai_analyzer.py, 58-194).                       *)
(***************************************************************************)
\* a comment: an explanation with its count and its numbers formatted to one decimal,
\* or the text of the except branch naming the error
Comment(label, n, vals) == [error |-> FALSE, label |-> label, n |-> n, vals |-> vals]

ErrorComment(label) == [error |-> TRUE, label |-> label, n |-> 0, vals |-> <<>>]

\* every scorer first calls a str method on the response (or re.findall): None raises
Raises(response) == response.kind = "none"

\* the detector outputs a scorer computes for one response
SignalsOf(m, response) ==
    CASE m = "cidr" ->
           [relevance |-> analyze_relevance(response),
            completeness |-> analyze_completeness(response),
            accuracy |-> analyze_accuracy(response),
            context |-> analyze_context(response)]
      [] m = "scvs" ->
           [credibility |-> analyze_source_credibility(extract_sources(response)),
            verifiability |-> analyze_verifiability(extract_sources(response))]
      [] m = "acso" ->
           [readability |-> analyze_readability(response),
            structure |-> analyze_structure_quality(response),
            summarizability |-> analyze_summarizability(response)]
      [] m = "uifl" ->
           [sentiment |-> analyze_sentiment(response),
            actionability |-> analyze_actionability(response),
            follow_up |-> analyze_follow_up_potential(response)]

\* query_score = (relevance + completeness + accuracy + context) / 4
cidr_query_score(sig) ==
    RDiv(SumSeq(<<sig.relevance, sig.completeness, sig.accuracy, sig.context>>), 4)

\* the tail of _calculate_cidr_score reporting the total instead of the mean
cidr_final_total(total, n) ==
    LET final_score == RMin(R(100), RMax(R(0), total))
    IN  [score |-> final_score, comment |-> Comment("Intent understanding", n, <<Fmt1(final_score)>>)]

\* the tail of _calculate_cidr_score, after the loop over the queries
cidr_final(total, n) ==
    LET final_score == RMin(R(100), RMax(R(0), RDiv(total, n)))
    IN  [score |-> final_score, comment |-> Comment("Intent understanding", n, <<Fmt1(final_score)>>)]

calculate_scvs_score(response) ==
    LET sig == SignalsOf("scvs", response)
    IN  [score |-> RDiv(RAdd(sig.credibility, sig.verifiability), 2),
         comment |-> Comment("Found sources", Len(extract_sources(response)),
                             <<Fmt1(sig.credibility), Fmt1(sig.verifiability)>>)]

calculate_acso_score(response) ==
    LET sig == SignalsOf("acso", response)
    IN  [score |-> RDiv(SumSeq(<<sig.readability, sig.structure, sig.summarizability>>), 3),
         comment |-> Comment("Content structure analysis", 0,
                             <<Fmt1(sig.readability), Fmt1(sig.structure),
                               Fmt1(sig.summarizability)>>)]

calculate_uifl_score(response) ==
    LET sig == SignalsOf("uifl", response)
    IN  [score |-> RDiv(SumSeq(<<sig.sentiment, sig.actionability, sig.follow_up>>), 3),
         comment |-> Comment("Engagement analysis", 0,
                             <<Fmt1(sig.sentiment), Fmt1(sig.actionability),
                               Fmt1(sig.follow_up)>>)]

\* the except branch of _calculate_*_score: return 0, f"Error calculating ... score: ..."
ExceptResult(m) ==
    [score |-> R(0),
     comment |-> ErrorComment(CASE m = "cidr" -> "Error calculating CIDR score"
                                [] m = "scvs" -> "Error calculating SCVS score"
                                [] m = "acso" -> "Error calculating ACSO score"
                                [] m = "uifl" -> "Error calculating UIFL score")]

\* the result of a single-query methodology for the response received
SingleQueryResult(m, response) ==
    IF Raises(response) THEN ExceptResult(m)
    ELSE CASE m = "scvs" -> calculate_scvs_score(response)
           [] m = "acso" -> calculate_acso_score(response)
           [] m = "uifl" -> calculate_uifl_score(response)

\* _calculate_cidr_score accumulating into a total it does not reset
CarriedTotal == total_score

\* total_score = 0 at the head of _calculate_cidr_score
InitialTotal == R(0)

\* _analyze_platform storing only the results of scorers that did not fail
StoreScoreUnlessError(d, m, result) ==
    IF result.comment.error THEN d ELSE (m :> result) @@ d

\* scores[methodology] = {'score': score, 'comment': comment}
StoreScore(d, m, result) == (m :> result) @@ d

(***************************************************************************)
(* _generate_insights (ai_analyzer.py, 366-395).                           *)
(***************************************************************************)
\* max(d, key=d.get) over a dict whose keys were inserted in the order keys:
\* the first key holding the largest value
RECURSIVE PyMaxFrom(_, _, _, _)
PyMaxFrom(keys, f, i, best) ==
    IF i > Len(keys) THEN best
    ELSE PyMaxFrom(keys, f, i + 1, IF RLt(f[best], f[keys[i]]) THEN keys[i] ELSE best)

\* a max that keeps the last key holding the largest value
RECURSIVE PyMaxLastFrom(_, _, _, _)
PyMaxLastFrom(keys, f, i, best) ==
    IF i > Len(keys) THEN best
    ELSE PyMaxLastFrom(keys, f, i + 1, IF RLeq(f[best], f[keys[i]]) THEN keys[i] ELSE best)

PyMaxLast(keys, f) == PyMaxLastFrom(keys, f, 2, keys[1])

PyMax(keys, f) == PyMaxFrom(keys, f, 2, keys[1])

\* min(d, key=d.get): the first key holding the smallest value
RECURSIVE PyMinFrom(_, _, _, _)
PyMinFrom(keys, f, i, best) ==
    IF i > Len(keys) THEN best
    ELSE PyMinFrom(keys, f, i + 1, IF RLt(f[keys[i]], f[best]) THEN keys[i] ELSE best)

PyMin(keys, f) == PyMinFrom(keys, f, 2, keys[1])

\* str.upper() on a methodology name
Upper(m) ==
    CASE m = "cidr" -> "CIDR" [] m = "scvs" -> "SCVS" [] m = "acso" -> "ACSO" [] m = "uifl" -> "UIFL"

methodology_averages(ps) ==
    [m \in MethodologySet |->
        RDiv(SumSeq([i \in 1..Len(platforms) |-> ps[platforms[i]][m].score]), Len(platforms))]

platform_averages(ps) ==
    [p \in PlatformSet |->
        RDiv(SumSeq([i \in 1..Len(methodologies) |-> ps[p][methodologies[i]].score]),
             Len(methodologies))]

\* an insights list kept on the analyzer from one call to the next
KeptInsightsList == IF run = 2 THEN first_result.insights ELSE <<>>

\* insights = [] at the head of _generate_insights
NewInsightsList == <<>>

\* the four sentences, joined by " " in the source; each is kept as its template, its
\* subject and its average formatted to one decimal
generate_insights(c, ps) ==
    LET ma == methodology_averages(ps)
        pa == platform_averages(ps)
        best_methodology == PyMax(methodologies, ma)
        worst_methodology == PyMin(methodologies, ma)
        best_platform == PyMax(platforms, pa)
        worst_platform == PyMin(platforms, pa)
    IN  NewInsightsList \o
        << [text |-> "performs best in", company |-> c,
            subject |-> Upper(best_methodology), avg |-> Fmt1(ma[best_methodology])],
           [text |-> "The area needing most improvement is", company |-> "",
            subject |-> Upper(worst_methodology), avg |-> Fmt1(ma[worst_methodology])],
           [text |-> "Highest visibility on", company |-> "",
            subject |-> best_platform, avg |-> Fmt1(pa[best_platform])],
           [text |-> "Lowest visibility on", company |-> "",
            subject |-> worst_platform, avg |-> Fmt1(pa[worst_platform])] >>

(***************************************************************************)
(* URLAnalyzer (url_analyzer.py).  A document is a set of elements; an      *)
(* element stands for n equal tags.  A text (a title, an element's text,   *)
(* the page text) is the set of its lower-case word tokens, and a keyword  *)
(* occurs in a text when it is one of its tokens (no token of the          *)
(* vocabulary is part of another) together with what the tokenizers        *)
(* count in it: word tokens, sentences and syllables.                      *)
(***************************************************************************)
\* how many elements a fetched document holds at most
MaxElements == 2

El(tag, attr, place, n, text, words, sentences, syllables) ==
    [tag |-> tag, attr |-> attr, place |-> place, n |-> n, text |-> text,
     words |-> words, sentences |-> sentences, syllables |-> syllables]

\* the elements a document is built from
TitleElements ==
    { El("title", "string", "head", 1, {"acme", "widgets"}, 2, 0, 4),
      El("title", "string", "head", 1, {"the"}, 1, 0, 1),
      El("title", "empty", "head", 1, {}, 0, 0, 0) }

MetaDescriptionElements ==
    { El("meta", "description", "head", 1, {}, 0, 0, 0),
      El("meta", "description-empty", "head", 1, {}, 0, 0, 0),
      El("meta", "description-no-content", "head", 1, {}, 0, 0, 0) }

OtherElements ==
    { El("h1", "", "main", 1, {"acme", "widgets"}, 2, 0, 4),
      El("h1", "", "main", 2, {"news"}, 2, 0, 2),
      El("h2", "", "main", 1, {"pricing"}, 1, 0, 2),
      El("h3", "", "main", 1, {"news"}, 1, 0, 1),
      El("script", "application/ld+json", "head", 1, {}, 0, 0, 0),
      El("meta", "viewport", "head", 1, {}, 0, 0, 0),
      El("meta", "article:published_time", "head", 1, {}, 0, 0, 0),
      El("time", "", "main", 1, {}, 2, 0, 3),
      El("img", "alt", "main", 3, {}, 0, 0, 0),
      El("img", "", "main", 1, {}, 0, 0, 0),
      El("img", "", "main", 9, {}, 0, 0, 0),
      El("video", "", "main", 1, {}, 0, 0, 0),
      El("iframe", "youtube.com", "main", 1, {}, 0, 0, 0),
      El("a", "/contact", "main", 1, {"contact"}, 1, 0, 2),
      El("a", "/about", "nav", 1, {"about"}, 1, 0, 2),
      El("a", "https://other.example/", "main", 1, {"partner"}, 1, 0, 2),
      El("a", "https://other.example/", "footer", 6, {"partner"}, 6, 0, 12),
      El("a", "https://facebook.com/sharer", "main", 1, {"share"}, 1, 0, 1),
      El("button", "", "main", 1, {"sign up"}, 2, 0, 2),
      El("form", "", "main", 1, {}, 0, 0, 0),
      El("link", "canonical", "head", 1, {}, 0, 0, 0),
      El("link", "canonical-no-href", "head", 1, {}, 0, 0, 0),
      El("p", "", "main", 1, {"acme", "widgets", "news"}, 120, 8, 170),
      El("p", "", "main", 1, {"pricing", "partner"}, 300, 12, 540),
      El("p", "", "main", 1, {"acme", "pricing", "news"}, 600, 30, 960) }

ElementCatalogue == TitleElements \cup MetaDescriptionElements \cup OtherElements

RECURSIVE SubsetsUpTo(_, _)
SubsetsUpTo(S, k) ==
    IF k = 0 THEN {{}}
    ELSE LET prev == SubsetsUpTo(S, k - 1)
         IN  prev \cup {T \cup {x} : T \in prev, x \in S}

\* a page that has every feature the scorers reward: title, meta description, one H1,
\* H2, H3, JSON-LD, viewport, publication date, images with alt text, a video, a contact
\* link, six external links in the body, a share link, a button, a form, a canonical
\* link, and 600 words of short sentences and short words
FullPage ==
    { El("title", "string", "head", 1, {"acme", "widgets"}, 2, 0, 4),
      El("meta", "description", "head", 1, {}, 0, 0, 0),
      El("h1", "", "main", 1, {"acme", "widgets"}, 2, 0, 4),
      El("h2", "", "main", 1, {"pricing"}, 1, 0, 2),
      El("h3", "", "main", 1, {"news"}, 1, 0, 1),
      El("script", "application/ld+json", "head", 1, {}, 0, 0, 0),
      El("meta", "viewport", "head", 1, {}, 0, 0, 0),
      El("meta", "article:published_time", "head", 1, {}, 0, 0, 0),
      El("img", "alt", "main", 3, {}, 0, 0, 0),
      El("video", "", "main", 1, {}, 0, 0, 0),
      El("a", "/contact", "main", 1, {"contact"}, 1, 0, 2),
      El("a", "https://other.example/", "main", 6, {"partner"}, 6, 0, 12),
      El("a", "https://facebook.com/sharer", "main", 1, {"share"}, 1, 0, 1),
      El("button", "", "main", 1, {"sign up"}, 2, 0, 2),
      El("form", "", "main", 1, {}, 0, 0, 0),
      El("link", "canonical", "head", 1, {}, 0, 0, 0),
      El("p", "", "main", 1, {"acme", "pricing", "news"}, 600, 60, 720) }

\* a page that has none of them: 100 words in two sentences of long words
BarePage == { El("p", "", "main", 1, {"pricing"}, 100, 2, 250) }

\* the documents fetched: the two pages above, and every document of at most MaxElements
\* elements of the catalogue with at most one title and one meta description
Documents ==
    {FullPage, BarePage} \cup
    {d \in SubsetsUpTo(ElementCatalogue, MaxElements) :
        /\ Cardinality(d \cap TitleElements) <= 1
        /\ Cardinality(d \cap MetaDescriptionElements) <= 1
        /\ Cardinality({e \in d : e.tag = "link"}) <= 1}

\* what requests.get does: a response, or one of the RequestException cases
FetchOutcomes == {"ok", "connection_error", "timeout", "http_error"}

Urls == {"https://site.example/page", "http://site.example/page"}

\* the Last-Modified header: absent, not in the format strptime expects, or a date
\* age_days days before the request
Header(kind, age_days) == [kind |-> kind, age_days |-> age_days]

NoHeader == Header("absent", 0)

\* the ages on both sides of the two thresholds of the Last-Modified check, and a header
\* dated after the request (a negative age)
HeaderAges == {-1, 89, 90, 364, 365}

\* a header sent with an empty value is falsy for `if last_modified:`
LastModifiedValues ==
    {NoHeader, Header("empty", 0), Header("unparsable", 0)}
        \cup {Header("date", a) : a \in HeaderAges}

RECURSIVE SumN(_)
SumN(S) == IF S = {} THEN 0 ELSE LET e == CHOOSE x \in S : TRUE IN e.n + SumN(S \ {e})

RECURSIVE SumField(_, _)
SumField(S, f) ==
    IF S = {} THEN 0 ELSE LET e == CHOOSE x \in S : TRUE IN e[f] + SumField(S \ {e}, f)

\* len(soup.find_all(tag)) and the like: the number of tags that satisfy P
FindAll(soup, P(_)) == SumN({e \in soup : P(e)})

Tokens(S) == UNION {e.text : e \in S}

\* for script in soup(['script', 'style', 'header', 'footer', 'nav']): script.extract()
Extract(soup) ==
    {e \in soup : e.tag \notin {"script", "style"} /\ e.place \notin {"header", "footer", "nav"}}

\* soup.get_text(separator=' ', strip=True) of what is left: the text of every element
GetText(soup) ==
    LET w == SumField(soup, "words")
        s == SumField(soup, "sentences")
    IN  [tokens |-> Tokens(soup), words |-> w,
         sentences |-> IF w = 0 THEN 0 ELSE IF s = 0 THEN 1 ELSE s,
         syllables |-> SumField(soup, "syllables")]

\* int(x) in the place of round(x), for a non-negative x
PyRoundDown(x) == x[1] \div x[2]

\* Python's round(x): to the nearest integer, ties to the even one
PyRound(x) ==
    LET q == x[1] \div x[2]
        r == x[1] % x[2]
    IN  IF 2 * r < x[2] THEN q
        ELSE IF 2 * r > x[2] THEN q + 1
        ELSE IF q % 2 = 0 THEN q ELSE q + 1

Max2(a, b) == IF a > b THEN a ELSE b
Min2(a, b) == IF a < b THEN a ELSE b

\* max(0, min(100, x))
Clamp(x) == Max2(0, Min2(100, x))

\* _get_readability_scores without its early return, the divisors kept above zero
get_readability_scores_unguarded(text) ==
    LET sentences == Max2(1, text.sentences)
        words == Max2(1, text.words)
        grade100 == RAdd(Frac(39 * text.words, sentences),
                         RAdd(Frac(1180 * text.syllables, words), R(-1559)))
    IN  [word_count |-> text.words, sentence_count |-> text.sentences,
         avg_sentence_length |-> PyRound(Frac(100 * text.words, sentences)),
         flesch_kincaid_grade |-> Max2(0, PyRound(RDiv(grade100, 100)))]

\* avg_sentence_length is kept in hundredths: round(x, 2)
get_readability_scores(text) ==
    IF text.sentences = 0 \/ text.words = 0
    THEN [word_count |-> text.words, sentence_count |-> text.sentences,
          avg_sentence_length |-> 0, flesch_kincaid_grade |-> 12]
    ELSE LET grade100 == RAdd(Frac(39 * text.words, text.sentences),
                              RAdd(Frac(1180 * text.syllables, text.words), R(-1559)))
         IN  [word_count |-> text.words, sentence_count |-> text.sentences,
              avg_sentence_length |-> PyRound(Frac(100 * text.words, text.sentences)),
              flesch_kincaid_grade |-> Max2(0, PyRound(RDiv(grade100, 100)))]

\* a scorer that returns its score with an empty findings list
ScoreResultNoFindings(score, findings) == [score |-> score, findings |-> <<>>]

\* what a scorer returns
ScoreResult(score, findings) == [score |-> score, findings |-> findings]

\* the content attribute of a meta description tag, as tokens
MetaContent(e) == IF e.attr = "description" THEN {"acme", "pricing"} ELSE {}

stop_words == {"the", "no", "a", "of", "and"}

IsImg(e) == e.tag = "img"
IsVideo(e) == e.tag = "video" \/ (e.tag = "iframe" /\ e.attr \in {"youtube.com", "vimeo.com"})
IsH1(e) == e.tag = "h1"
IsH2(e) == e.tag = "h2"
IsH3(e) == e.tag = "h3"
IsHeading(e) == e.tag \in {"h1", "h2", "h3"}
IsSchemaScript(e) == e.tag = "script" /\ e.attr = "application/ld+json"
IsViewport(e) == e.tag = "meta" /\ e.attr = "viewport"
IsContactLink(e) == e.tag = "a" /\ e.attr \in {"/contact", "/about", "/team"}
IsExternalLink(e) ==
    e.tag = "a" /\ e.attr \in {"https://other.example/", "https://facebook.com/sharer"}
IsShareLink(e) == e.tag = "a" /\ e.attr = "https://facebook.com/sharer"
IsCta(e) ==
    /\ e.tag \in {"a", "button"}
    /\ e.text \cap {"buy", "shop", "learn more", "sign up", "contact", "get started"} # {}
IsForm(e) == e.tag = "form"
IsCanonical(e) == e.tag = "link" /\ e.attr \in {"canonical", "canonical-no-href"}
IsPubDate(e) ==
    \/ e.tag = "meta" /\ e.attr \in {"article:published_time", "date"}
    \/ e.tag = "time"

score_content_quality(soup, text_content) ==
    LET readability == get_readability_scores(text_content)
        word_count == readability.word_count
        flesch_kincaid == readability.flesch_kincaid_grade
        images == FindAll(soup, IsImg)
        videos == FindAll(soup, IsVideo)
        c1 == IF word_count < 200 THEN <<-20, "Low word count">>
              ELSE IF word_count < 500 THEN <<10, "Moderate word count">>
              ELSE <<20, "Good word count">>
        c2 == IF flesch_kincaid <= 8 THEN <<15, "Excellent readability">>
              ELSE IF flesch_kincaid <= 12 THEN <<10, "Good readability">>
              ELSE <<-10, "Readability may be challenging">>
        c3 == IF images > 0 \/ videos > 0 THEN <<15, "Multimedia detected">>
              ELSE <<-5, "No multimedia detected">>
    IN  ScoreResult(Clamp(c1[1] + c2[1] + c3[1] + 50),
                    <<c1[2], c2[2], c3[2], "Keyword density pending">>)

\* keywords=None at the only call site: they are taken from the title and the meta description
score_relevance_and_intent(soup, title, meta_description, text_content) ==
    LET keywords == (title \cup meta_description) \ stop_words
        c1 == IF keywords \cap title # {} THEN <<20, "Keywords found in page title">>
              ELSE <<0, "No prominent keywords found in page title">>
        c2 == IF keywords \cap Tokens({e \in soup : IsHeading(e)}) # {}
              THEN <<20, "Keywords found in headings">>
              ELSE <<0, "No prominent keywords found in headings">>
        c3 == IF keywords \cap meta_description # {} /\ keywords \cap text_content.tokens # {}
              THEN <<15, "Content aligns with meta description">>
              ELSE <<0, "Content may not fully align">>
    IN  ScoreResult(Clamp(c1[1] + c2[1] + c3[1] + 45),
                    <<c1[2], c2[2], c3[2], "Topic clustering pending">>)

IsHttps(url) == url = "https://site.example/page"

score_source_credibility(soup, url) ==
    LET contact_links == FindAll(soup, IsContactLink)
        external_links == FindAll(soup, IsExternalLink)
        c1 == IF IsHttps(url) THEN <<20, "SSL/TLS certificate detected">>
              ELSE <<-10, "No SSL/TLS certificate detected">>
        c2 == IF contact_links > 0 THEN <<15, "Contact/About/Team links found">>
              ELSE <<-5, "No obvious Contact/About/Team links found">>
        c3 == IF external_links > 5 THEN <<10, "Numerous external links">>
              ELSE IF external_links > 0 THEN <<5, "Some external links">>
              ELSE <<0, "Few or no external links detected">>
    IN  ScoreResult(Clamp(c1[1] + c2[1] + c3[1] + 55),
                    <<c1[2], c2[2], c3[2], "Domain authority pending">>)

score_content_structure(soup) ==
    LET h1_tags == FindAll(soup, IsH1)
        h2_tags == FindAll(soup, IsH2)
        h3_tags == FindAll(soup, IsH3)
        schema_scripts == FindAll(soup, IsSchemaScript)
        viewport_meta == FindAll(soup, IsViewport)
        c1 == IF h1_tags = 1 THEN <<20, <<"Single H1 tag found">> >>
              ELSE IF h1_tags > 1 THEN <<-10, <<"Multiple H1 tags found">> >>
              ELSE <<-15, <<"No H1 tag found">> >>
        c2 == IF h2_tags > 0 THEN <<10, <<"H2 tags found">> >> ELSE <<0, <<>> >>
        c3 == IF h3_tags > 0 THEN <<5, <<"H3 tags found">> >> ELSE <<0, <<>> >>
        c4 == IF schema_scripts > 0 THEN <<20, <<"JSON-LD schema script(s) detected">> >>
              ELSE <<0, <<"No JSON-LD schema markup detected">> >>
        c5 == IF viewport_meta > 0 THEN <<15, <<"Mobile viewport meta tag detected">> >>
              ELSE <<-10, <<"Mobile viewport meta tag missing">> >>
    IN  ScoreResult(Clamp(c1[1] + c2[1] + c3[1] + c4[1] + c5[1] + 30),
                    c1[2] \o c2[2] \o c3[2] \o c4[2] \o c5[2] \o <<"Semantic HTML pending">>)

\* the same check with the parse failure counted as an outdated page
last_modified_check_penalised(last_modified) ==
    LET age_days == last_modified.age_days
    IN  IF last_modified.kind \in {"absent", "empty"}
        THEN <<0, "No Last-Modified HTTP header found">>
        ELSE IF last_modified.kind = "unparsable"
             THEN <<-10, "Could not parse Last-Modified header">>
        ELSE IF age_days < 90 THEN <<25, "Content recently modified">>
        ELSE IF age_days < 365 THEN <<15, "Content modified within the last year">>
        ELSE <<-10, "Content last modified over a year ago">>

\* the Last-Modified block of _score_freshness_and_timeliness: the score delta and the
\* finding; strptime raising ValueError is caught and leaves the score alone
last_modified_check(last_modified) ==
    LET age_days == last_modified.age_days
    IN  IF last_modified.kind \in {"absent", "empty"}
        THEN <<0, "No Last-Modified HTTP header found">>
        ELSE IF last_modified.kind = "unparsable"
             THEN <<0, "Could not parse Last-Modified header">>
        ELSE IF age_days < 90 THEN <<25, "Content recently modified">>
        ELSE IF age_days < 365 THEN <<15, "Content modified within the last year">>
        ELSE <<-10, "Content last modified over a year ago">>

score_freshness_and_timeliness(soup, last_modified) ==
    LET c1 == last_modified_check(last_modified)
        c2 == IF FindAll(soup, IsPubDate) > 0 THEN <<10, "Publication date metadata detected">>
              ELSE <<0, "No explicit publication date metadata found">>
    IN  ScoreResult(Clamp(c1[1] + c2[1] + 40), <<c1[2], c2[2], "Update frequency pending">>)

\* _score_user_engagement_potential normalised from a base of 50
score_user_engagement_potential_base50(soup) ==
    LET c1 == IF FindAll(soup, IsCta) > 0 THEN <<20, "Call-to-action elements detected">>
              ELSE <<-10, "Few or no clear call-to-action elements found">>
        c2 == IF FindAll(soup, IsForm) > 0 THEN <<15, "form(s) detected">>
              ELSE <<0, "No forms detected on the page">>
        c3 == IF FindAll(soup, IsShareLink) > 0 THEN <<10, "Social sharing buttons detected">>
              ELSE <<0, "No obvious social sharing buttons found">>
        c4 == IF FindAll(soup, IsVideo) > 0 THEN <<10, "Embedded video content detected">>
              ELSE <<0, "No embedded video content found">>
    IN  ScoreResult(Clamp(c1[1] + c2[1] + c3[1] + c4[1] + 50),
                    <<c1[2], c2[2], c3[2], c4[2], "Comments/discussion pending">>)

score_user_engagement_potential(soup) ==
    LET c1 == IF FindAll(soup, IsCta) > 0 THEN <<20, "Call-to-action elements detected">>
              ELSE <<-10, "Few or no clear call-to-action elements found">>
        c2 == IF FindAll(soup, IsForm) > 0 THEN <<15, "form(s) detected">>
              ELSE <<0, "No forms detected on the page">>
        c3 == IF FindAll(soup, IsShareLink) > 0 THEN <<10, "Social sharing buttons detected">>
              ELSE <<0, "No obvious social sharing buttons found">>
        c4 == IF FindAll(soup, IsVideo) > 0 THEN <<10, "Embedded video content detected">>
              ELSE <<0, "No embedded video content found">>
    IN  ScoreResult(Clamp(c1[1] + c2[1] + c3[1] + c4[1] + 45),
                    <<c1[2], c2[2], c3[2], c4[2], "Comments/discussion pending">>)

HasAlt(e) == e.tag = "img" /\ e.attr = "alt"
\* soup.find('link', rel='canonical') and its href; a document holds one such link at most
HasCanonicalHref(soup) ==
    \E e \in soup : IsCanonical(e) /\ e.attr = "canonical"

\* _score_technical_seo with >= in the place of > in the two ratio tests
score_technical_seo_inclusive(soup, url, last_modified) ==
    LET images_with_alt == FindAll(soup, HasAlt)
        total_images == FindAll(soup, IsImg)
        c1 == IF FindAll(soup, IsViewport) > 0 THEN <<15, "Mobile viewport meta tag present">>
              ELSE <<-10, "Mobile viewport meta tag missing">>
        c2 == IF HasCanonicalHref(soup) THEN <<15, "Canonical tag found">>
              ELSE <<0, "No canonical tag found">>
        c3 == IF total_images > 0
              THEN IF 4 * images_with_alt >= 3 * total_images
                   THEN <<10, "Most images have alt text">>
                   ELSE IF 4 * images_with_alt >= total_images
                        THEN <<5, "Some images have alt text">>
                        ELSE <<0, "Few images have alt text">>
              ELSE <<0, "No images found on the page">>
    IN  ScoreResult(Clamp(c1[1] + c2[1] + c3[1] + 40),
                    <<c1[2], c2[2], c3[2], "Page load speed pending">>)

score_technical_seo(soup, url, last_modified) ==
    LET images_with_alt == FindAll(soup, HasAlt)
        total_images == FindAll(soup, IsImg)
        c1 == IF FindAll(soup, IsViewport) > 0 THEN <<15, "Mobile viewport meta tag present">>
              ELSE <<-10, "Mobile viewport meta tag missing">>
        c2 == IF HasCanonicalHref(soup) THEN <<15, "Canonical tag found">>
              ELSE <<0, "No canonical tag found">>
        c3 == IF total_images > 0
              THEN IF 4 * images_with_alt > 3 * total_images
                   THEN <<10, "Most images have alt text">>
                   ELSE IF 4 * images_with_alt > total_images
                        THEN <<5, "Some images have alt text">>
                        ELSE <<0, "Few images have alt text">>
              ELSE <<0, "No images found on the page">>
    IN  ScoreResult(Clamp(c1[1] + c2[1] + c3[1] + 40),
                    <<c1[2], c2[2], c3[2], "Page load speed pending">>)

\* title = '' for a page without a title element
EmptyTitle == {}

NoTitle == {"no", "title", "found"}
NoMetaDescription == {"no", "meta", "description", "found"}

\* title = soup.title.string if soup.title else 'No title found'
TitleOf(html) ==
    IF html \cap TitleElements = {} THEN NoTitle
    ELSE (CHOOSE e \in html : e \in TitleElements).text

\* .string of a title element without a single text child is None
TitleIsNone(html) == \E e \in html \cap TitleElements : e.attr = "empty"

MetaTagOf(html) == html \cap MetaDescriptionElements

\* except requests.exceptions.RequestException
OnRequestException(fetch) == [error |-> "Failed to fetch URL"]

\* an except branch that returns what had been computed so far
OnExceptionPartial(computed) == [k \in DOMAIN computed |-> computed[k]]

\* except Exception, with what the try block had computed when it was left
OnException(computed) == [error |-> "An unexpected error occurred"]

\* the seven category keys of the dictionary analyze_url returns
Categories ==
    {"content_quality", "relevance_and_intent", "source_credibility", "content_structure",
     "freshness_and_timeliness", "user_engagement_potential", "technical_seo"}

\* the fetch and the extraction raise nothing: _score_content_quality is called
ReachesScorers(fetch, html) ==
    fetch = "ok" /\ ~(\E e \in MetaTagOf(html) : e.attr = "description-no-content")

analyze_url(url, fetch, last_modified, html) ==
    IF fetch # "ok" THEN OnRequestException(fetch)
    ELSE IF \E e \in MetaTagOf(html) : e.attr = "description-no-content"
    THEN OnException([url |-> url])
    ELSE
        LET title == TitleOf(html)
            meta_description ==
                IF MetaTagOf(html) = {} THEN NoMetaDescription
                ELSE MetaContent(CHOOSE e \in MetaTagOf(html) : TRUE)
            soup == Extract(html)
            text_content == GetText(soup)
            content_quality_result == score_content_quality(soup, text_content)
        IN  IF TitleIsNone(html)
            THEN \* title + " " + meta_description raises TypeError in the second scorer
                 OnException([url |-> url, content_quality |-> content_quality_result])
            ELSE
                LET relevance_and_intent_result ==
                        score_relevance_and_intent(soup, title, meta_description, text_content)
                    source_credibility_result == score_source_credibility(soup, url)
                    content_structure_result == score_content_structure(soup)
                    freshness_and_timeliness_result ==
                        score_freshness_and_timeliness(soup, last_modified)
                    user_engagement_potential_result == score_user_engagement_potential(soup)
                    technical_seo_result == score_technical_seo(soup, url, last_modified)
                    all_scores == << content_quality_result.score,
                                     relevance_and_intent_result.score,
                                     source_credibility_result.score,
                                     content_structure_result.score,
                                     freshness_and_timeliness_result.score,
                                     user_engagement_potential_result.score,
                                     technical_seo_result.score >>
                    total == SumSeq([i \in 1..Len(all_scores) |-> R(all_scores[i])])
                IN  [url |-> url,
                     overall_score |->
                        [value |-> PyRound(RDiv(total, Len(all_scores))),
                         interpretation |-> "Aggregated score based on 7 categories"],
                     content_quality |-> content_quality_result,
                     relevance_and_intent |-> relevance_and_intent_result,
                     source_credibility |-> source_credibility_result,
                     content_structure |-> content_structure_result,
                     freshness_and_timeliness |-> freshness_and_timeliness_result,
                     user_engagement_potential |-> user_engagement_potential_result,
                     technical_seo |-> technical_seo_result]

(***************************************************************************)
(* analyze_company (ai_analyzer.py, 25-56) as a state machine: one step    *)
(* per provider query (the query and the scoring of its response), one per *)
(* time.sleep(1), one for _generate_insights and the return.               *)
(***************************************************************************)
(***************************************************************************)
(* The Flask routes: POST /analyze (routes/analysis.py) over the           *)
(* CompanyAnalysis table, and log_interaction / rate_interaction (main.py) *)
(* over the ai_interactions table.  A rating is the set holding the        *)
(* integer, empty for None.                                                *)
(***************************************************************************)
\* the company_name values of the request bodies (a body without the key gives '')
RequestNames == {"Acme", " Acme ", "Beta", "", "   "}

\* str.strip()
Strip(name) ==
    CASE name = " Acme " -> "Acme"
      [] name = "   " -> ""
      [] OTHER -> name

StoredNames == {Strip(name) : name \in RequestNames} \ {""}

\* one request to POST /analyze: where it is, the stripped name, the status it answered
\* with, the id of the row it returned and the time of the answer
Handler(at_pc, name, status, served, at) ==
    [pc |-> at_pc, company_name |-> name, status |-> status, served |-> served, at |-> at]

Waiting == Handler("waiting", "", 0, 0, 0)

NoResponse == [route |-> "", interaction_id |-> 0, rating |-> {}, message |-> ""]

InitRoutes ==
    /\ company_analyses = <<>>
    /\ handlers = [r \in 1..MaxRequests |-> Waiting]
    /\ now = 0
    /\ analyzer_runs = [name \in StoredNames |-> 0]
    /\ interactions = <<>>
    /\ flashed = NoResponse

\* nothing outside the two analyzers has been called
InitOther ==
    /\ word = <<>>
    /\ count = 0
    /\ InitRoutes

\* the analyzers after construction, before any call
InitAnalyzers ==
    /\ pc = "idle"
    /\ run = 0
    /\ company_name = ""
    /\ pi = 1
    /\ mi = 1
    /\ qi = 1
    /\ total_score = R(0)
    /\ scores = EmptyDict
    /\ platform_scores = EmptyDict
    /\ insights = None
    /\ signals = EmptyDict
    /\ queries = 0
    /\ deviations = 0
    /\ memo = EmptyDict
    /\ failed = {}
    /\ first_result = None
    /\ url_input = None
    /\ url_result = None
    /\ resp = NoneValue
    /\ readability_scores = NoneValue

Init == InitAnalyzers /\ InitOther

\* analyze_company is entered: platform_scores = {}
EnterAnalysis ==
    /\ pc' = "query"
    /\ pi' = 1
    /\ mi' = 1
    /\ qi' = 1
    /\ platform_scores' = EmptyDict
    /\ insights' = None
    /\ queries' = 0
    /\ failed' = {}
    /\ UNCHANGED <<total_score, scores, signals, url_input, url_result, resp, readability_scores>>
    /\ UNCHANGED otherVars

AnalyzeCompany(c) ==
    /\ pc = "idle"
    /\ run' = 1
    /\ company_name' = c
    /\ EnterAnalysis
    /\ UNCHANGED <<deviations, memo, first_result>>

\* the methodology returned result: it is stored, and after the last methodology the
\* platform's scores are stored and the pacing delay starts
Finish(p, m, cur, total, result) ==
    LET stored == StoreScore(cur, m, result)
    IN  /\ scores' = stored
        /\ total_score' = total
        /\ qi' = 1
        /\ IF mi < Len(methodologies)
           THEN /\ mi' = mi + 1
                /\ UNCHANGED <<platform_scores, pc>>
           ELSE /\ mi' = 1
                /\ platform_scores' = (p :> stored) @@ platform_scores
                /\ pc' = "sleep"

\* the response of one query is scored
Scored(p, m, response) ==
    LET cur == IF mi = 1 /\ qi = 1 THEN EmptyDict ELSE scores
        total == IF m = "cidr" /\ qi = 1 THEN InitialTotal ELSE total_score
        n == Len(QueriesOf(m, company_name))
    IN  IF Raises(response)
        THEN /\ signals' = EmptyDict
             /\ Finish(p, m, cur, total, ExceptResult(m))
        ELSE /\ signals' = SignalsOf(m, response)
             /\ IF m # "cidr"
                THEN Finish(p, m, cur, total, SingleQueryResult(m, response))
                ELSE LET sum == RAdd(total, cidr_query_score(SignalsOf(m, response)))
                     IN  IF qi = n
                         THEN Finish(p, m, cur, sum, cidr_final(sum, n))
                         ELSE /\ total_score' = sum
                              /\ qi' = qi + 1
                              /\ scores' = cur
                              /\ UNCHANGED <<mi, platform_scores, pc>>

\* a query of chatgpt or searchgpt: the client answers as it likes in the first call of
\* analyze_company, and as it did for the same (platform, query) in the second
OpenAIQuery(o) ==
    LET p == platforms[pi]
        m == methodologies[mi]
        key == <<pi, mi, qi>>
    IN  /\ pc = "query"
        /\ UsesOpenAI(p)
        /\ IF run = 1
           THEN /\ o # UsualOutcome => deviations < MaxDeviations
                /\ deviations' = IF o # UsualOutcome THEN deviations + 1 ELSE deviations
                /\ memo' = (key :> o) @@ memo
           ELSE /\ o = memo[key]
                /\ UNCHANGED <<deviations, memo>>
        /\ queries' = queries + 1
        /\ failed' = IF o = "raise" THEN failed \cup {<<p, m>>} ELSE failed
        /\ resp' = QueryPlatform(p, QueriesOf(m, company_name)[qi], company_name, o)
        /\ Scored(p, m, QueryPlatform(p, QueriesOf(m, company_name)[qi], company_name, o))
        /\ UNCHANGED <<run, company_name, pi, insights, first_result, url_input, url_result,
                       readability_scores>>
        /\ UNCHANGED otherVars

\* a query of a simulated platform
SimulatedQuery ==
    LET p == platforms[pi]
        m == methodologies[mi]
    IN  /\ pc = "query"
        /\ ~UsesOpenAI(p)
        /\ queries' = queries + 1
        /\ resp' = QueryPlatform(p, QueriesOf(m, company_name)[qi], company_name, None)
        /\ Scored(p, m, QueryPlatform(p, QueriesOf(m, company_name)[qi], company_name, None))
        /\ UNCHANGED <<run, company_name, pi, insights, deviations, memo, failed,
                       first_result, url_input, url_result, readability_scores>>
        /\ UNCHANGED otherVars

\* time.sleep(1), then the next platform or the end of the loop
Sleep ==
    /\ pc = "sleep"
    /\ IF pi < Len(platforms)
       THEN pi' = pi + 1 /\ pc' = "query"
       ELSE pi' = pi /\ pc' = "insights"
    /\ UNCHANGED <<run, company_name, mi, qi, total_score, scores, platform_scores, insights,
                   signals, queries, deviations, memo, failed, first_result, url_input, url_result,
                   resp, readability_scores>>
    /\ UNCHANGED otherVars

\* insights = self._generate_insights(...) and the return
GenerateInsights ==
    /\ pc = "insights"
    /\ insights' = generate_insights(company_name, platform_scores)
    /\ pc' = "done"
    /\ UNCHANGED <<run, company_name, pi, mi, qi, total_score, scores, platform_scores,
                   signals, queries, deviations, memo, failed, first_result, url_input, url_result,
                   resp, readability_scores>>
    /\ UNCHANGED otherVars

\* the same analyzer is called again with the same company name
SecondCall ==
    /\ pc = "done"
    /\ run = 1
    /\ run' = 2
    /\ first_result' = [platform_scores |-> platform_scores, insights |-> insights]
    /\ EnterAnalysis
    /\ UNCHANGED <<company_name, deviations, memo>>

\* analyze_url: the fetch, the extraction, the seven scorers and the return
AnalyzeUrl(url, fetch, last_modified, html) ==
    /\ pc = "idle"
    /\ fetch # "ok" => last_modified = NoHeader /\ html = {}
    /\ pc' = "url_done"
    /\ url_input' = [url |-> url, fetch |-> fetch, last_modified |-> last_modified,
                     html |-> html]
    /\ url_result' = analyze_url(url, fetch, last_modified, html)
    /\ readability_scores' = IF ReachesScorers(fetch, html)
                             THEN get_readability_scores(GetText(Extract(html)))
                             ELSE NoneValue
    /\ UNCHANGED <<run, company_name, pi, mi, qi, total_score, scores, platform_scores,
                   insights, signals, queries, deviations, memo, failed, first_result, resp>>
    /\ UNCHANGED otherVars

\* a request for the analysis of a page, with what the fetch meets
AnalyzeUrlRequest ==
    /\ pc = "idle"
    /\ \E url \in Urls, fetch \in FetchOutcomes, lm \in LastModifiedValues, html \in Documents :
          AnalyzeUrl(url, fetch, lm, html)

\* a request for the analysis of a company
AnalyzeCompanyRequest ==
    /\ pc = "idle"
    /\ \E c \in CompanyNames : AnalyzeCompany(c)

\* a provider query of the running analysis
QueryStep ==
    /\ pc = "query"
    /\ \/ \E o \in Outcomes : OpenAIQuery(o)
       \/ SimulatedQuery

Next ==
    \/ AnalyzeCompanyRequest
    \/ AnalyzeUrlRequest
    \/ QueryStep
    \/ Sleep
    \/ GenerateInsights
    \/ SecondCall

Spec == Init /\ [][Next]_vars

(***************************************************************************)
(* _generate_insights alone, applied to score tables: every entry is 50    *)
(* but at most MaxOutliers of them, which are 0 or 100.                    *)
(***************************************************************************)
TableEntry(score) == [score |-> score, comment |-> Comment("given", 0, <<>>)]

RECURSIVE ScoreTablesUpTo(_)
ScoreTablesUpTo(k) ==
    IF k = 0 THEN {[p \in PlatformSet |-> [m \in MethodologySet |-> TableEntry(R(50))]]}
    ELSE LET prev == ScoreTablesUpTo(k - 1)
         IN  prev \cup {[t EXCEPT ![p][m] = TableEntry(v)] :
                           t \in prev, p \in PlatformSet, m \in MethodologySet,
                           v \in {R(0), R(100)}}

ScoreTables == ScoreTablesUpTo(MaxOutliers)

InitInsights ==
    /\ pc = "insights"
    /\ run = 1
    /\ company_name = "Acme"
    /\ pi = Len(platforms)
    /\ mi = 1
    /\ qi = 1
    /\ total_score = R(0)
    /\ scores = EmptyDict
    /\ platform_scores \in ScoreTables
    /\ insights = None
    /\ signals = EmptyDict
    /\ queries = 0
    /\ deviations = 0
    /\ memo = EmptyDict
    /\ failed = {}
    /\ first_result = None
    /\ url_input = None
    /\ url_result = None
    /\ resp = NoneValue
    /\ readability_scores = NoneValue
    /\ InitOther

NextInsights == GenerateInsights

SpecInsights == InitInsights /\ [][NextInsights]_vars

(***************************************************************************)
(* The detectors and the single-query scorers alone, applied to response   *)
(* texts: texts of every length up to MaxWords, texts holding up to        *)
(* MaxMarkers marker words, and texts naming up to MaxSources sources.     *)
(* The page analysis is kept beside them, for the page text functions.     *)
(***************************************************************************)
\* the words a drawn response takes its markers from
MarkerVocabulary ==
    {"industry", "market", "visit", "contact", "excellent", "reliable", "poor", "might",
     "established", "first", "additionally", "details"}

\* the markers that occur, as substrings, in one word of the vocabulary
MarkersOf(marker) ==
    IF marker = "additionally" THEN SetToBag({"additionally", "additional"})
    ELSE SetToBag({marker})

\* the marker occurrences of texts holding up to k words of the vocabulary
RECURSIVE OccUpTo(_)
OccUpTo(k) ==
    IF k = 0 THEN {EmptyBag}
    ELSE LET prev == OccUpTo(k - 1)
         IN  prev \cup {b (+) MarkersOf(w) : b \in prev, w \in MarkerVocabulary}

BoolSeqs(n) == UNION {[1..k -> BOOLEAN] : k \in 0..n}

\* texts without marker and source: every word count, with or without a period and a
\* mention of the company
LengthTexts ==
    {t \in {Piece(w, d, m, EmptyBag, <<>>, <<>>) : w \in 0..MaxWords, d \in 0..1, m \in 0..1} :
        t.dots <= t.words /\ t.mentions <= t.words}

\* texts of 30 words and 2 sentences, some of the words marker words
MarkerTexts == {Piece(30, 2, 0, o, <<>>, <<>>) : o \in OccUpTo(MaxMarkers)}

\* texts that give URLs (u tells which are of a credible site) and further domains (h):
\* the domain pattern also matches the host of every URL
SourceTexts ==
    LET pairs == {uh \in BoolSeqs(MaxSources \div 2) \X BoolSeqs(MaxSources) :
                    2 * Len(uh[1]) + Len(uh[2]) <= MaxSources}
    IN  {Piece(30, Len(uh[1]) + Len(uh[2]) + 1, 0, EmptyBag, uh[1], uh[1] \o uh[2]) :
            uh \in pairs}

Responses == LengthTexts \cup MarkerTexts \cup SourceTexts

\* every detector applied to one response
DetectorOutputs(t) ==
    SignalsOf("cidr", t) @@ SignalsOf("scvs", t) @@ SignalsOf("acso", t) @@ SignalsOf("uifl", t)

InitDetectors ==
    /\ pc = "idle"
    /\ run = 0
    /\ company_name = ""
    /\ pi = 1
    /\ mi = 1
    /\ qi = 1
    /\ total_score = R(0)
    /\ scores = EmptyDict
    /\ platform_scores = EmptyDict
    /\ insights = None
    /\ signals = EmptyDict
    /\ queries = 0
    /\ deviations = 0
    /\ memo = EmptyDict
    /\ failed = {}
    /\ first_result = None
    /\ url_input = None
    /\ url_result = None
    /\ resp \in Responses \cup {NoneValue}
    /\ readability_scores = NoneValue
    /\ InitOther

\* the detectors, and the three single-query scorers, are applied to the response
Detect ==
    /\ pc = "idle"
    /\ resp.kind = "str"
    /\ signals' = DetectorOutputs(resp)
    /\ scores' = [m \in {"scvs", "acso", "uifl"} |-> SingleQueryResult(m, resp)]
    /\ pc' = "detected"
    /\ UNCHANGED <<run, company_name, pi, mi, qi, total_score, platform_scores, insights,
                   queries, deviations, memo, failed, first_result, url_input, url_result,
                   resp, readability_scores>>
    /\ UNCHANGED otherVars

\* a page is analysed when no response is at hand
AnalyzePage ==
    /\ resp.kind = "none"
    /\ AnalyzeUrlRequest

NextDetectors == Detect \/ AnalyzePage

SpecDetectors == InitDetectors /\ [][NextDetectors]_vars

(***************************************************************************)
(* _calculate_methodology_score as a function of the platform, the         *)
(* methodology, the company and the answers the client gives to the        *)
(* queries of this one pair (ai_analyzer.py, 58-194).                      *)
(***************************************************************************)
IndexOf(seq, x) == CHOOSE i \in 1..Len(seq) : seq[i] = x

AnswerOf(answers, key) == IF key \in DOMAIN answers THEN answers[key] ELSE None

RECURSIVE calculate_cidr_score(_, _, _, _, _)
calculate_cidr_score(p, c, answers, i, total) ==
    LET queries_list == CidrQueries(c)
        response == QueryPlatform(p, queries_list[i], c,
                                  AnswerOf(answers, <<IndexOf(platforms, p), 1, i>>))
    IN  IF Raises(response) THEN ExceptResult("cidr")
        ELSE LET sum == RAdd(total, cidr_query_score(SignalsOf("cidr", response)))
             IN  IF i = Len(queries_list) THEN cidr_final(sum, Len(queries_list))
                 ELSE calculate_cidr_score(p, c, answers, i + 1, sum)

calculate_methodology_score(p, m, c, answers) ==
    IF m = "cidr" THEN calculate_cidr_score(p, c, answers, 1, R(0))
    ELSE SingleQueryResult(m,
            QueryPlatform(p, QueriesOf(m, c)[1], c,
                          AnswerOf(answers, <<IndexOf(platforms, p), IndexOf(methodologies, m), 1>>)))

\* analyze_url returned the complete dictionary
UrlComplete == pc = "url_done" /\ "error" \notin DOMAIN url_result

\* the sum of the seven category scores of a complete result
CategorySum == SumN({[k |-> k, n |-> url_result[k].score] : k \in Categories})

(***************************************************************************)
(* Properties.                                                             *)
(***************************************************************************)

\* C1: every detector output, every methodology score and every page category score is
\* a number between 0 and 100 inclusive.
C1_ScoresInRange ==
    /\ \A d \in DOMAIN signals : InRange(signals[d])
    /\ \A m \in DOMAIN scores : InRange(scores[m].score)
    /\ \A p \in DOMAIN platform_scores :
          \A m \in DOMAIN platform_scores[p] : InRange(platform_scores[p][m].score)
    /\ UrlComplete => \A k \in Categories : url_result[k].score \in 0..100

\* a list of five sources was scored: the verifiability detector met its cap
C1_Witness ==
    /\ pc = "query"
    /\ "verifiability" \in DOMAIN signals
    /\ signals["verifiability"] = R(100)
    /\ signals["credibility"] = R(100)

\* C2: when the platform loop is over, platform_scores holds exactly the five platform
\* keys, each with exactly the four methodology keys, each with a score and a comment,
\* whatever the providers did.
C2_PlatformScoresShape ==
    pc \in {"insights", "done"} =>
        /\ DOMAIN platform_scores = PlatformSet
        /\ \A p \in PlatformSet :
              /\ DOMAIN platform_scores[p] = MethodologySet
              /\ \A m \in MethodologySet : DOMAIN platform_scores[p][m] = {"score", "comment"}

\* an analysis returned in which a client call raised or gave no content
C2_Witness ==
    /\ pc = "done"
    /\ \E k \in DOMAIN memo : memo[k] \in {"none", "raise"}
    /\ \E p \in PlatformSet : \E m \in MethodologySet : platform_scores[p][m].comment.error

\* C3 (as the specification states it): whenever the provider call of a (platform,
\* methodology) pair failed, that pair's score is exactly 0 and its comment names the error.
C3_FailedCallScoresZero ==
    \A pair \in failed :
        (pair[1] \in DOMAIN platform_scores) =>
            /\ platform_scores[pair[1]][pair[2]].score = R(0)
            /\ platform_scores[pair[1]][pair[2]].comment.error

\* C4: when the platform loop is over all twenty (platform, methodology) pairs are
\* stored, and each stored result is what the scorer gives for the answers to that
\* pair's own queries, whatever happened in the other pairs, errors included.
C4_FailureIsolation ==
    pc \in {"insights", "done"} =>
        /\ DOMAIN platform_scores = PlatformSet
        /\ \A p \in PlatformSet :
              /\ DOMAIN platform_scores[p] = MethodologySet
              /\ \A m \in MethodologySet :
                    platform_scores[p][m] = calculate_methodology_score(p, m, company_name, memo)

\* an analysis returned in which one pair ended in its except branch while another pair
\* of the same platform has its usual score
C4_Witness ==
    /\ pc = "done"
    /\ \E p \in PlatformSet : \E m1, m2 \in MethodologySet :
          /\ platform_scores[p][m1].comment.error
          /\ ~platform_scores[p][m2].comment.error
          /\ RLt(R(0), platform_scores[p][m2].score)

\* C5: a second call of analyze_company on the same analyzer, with the same company and
\* the same provider answers, returns the platform_scores and the insights of the first.
C5_Deterministic ==
    (run = 2 /\ pc = "done") =>
        /\ platform_scores = first_result.platform_scores
        /\ insights = first_result.insights

\* the second call returned, after a first call in which an answer was not the usual one
C5_Witness ==
    /\ run = 2
    /\ pc = "done"
    /\ deviations > 0
    /\ Len(insights) > 0

\* k is the first key, in the order of keys, whose value no other value exceeds
IsFirstMax(keys, f, k) ==
    \E i \in 1..Len(keys) :
        /\ keys[i] = k
        /\ \A j \in 1..Len(keys) : RLeq(f[keys[j]], f[k])
        /\ \A j \in 1..(i - 1) : RLt(f[keys[j]], f[k])

\* k is the first key, in the order of keys, whose value is below or equal to all others
IsFirstMin(keys, f, k) ==
    \E i \in 1..Len(keys) :
        /\ keys[i] = k
        /\ \A j \in 1..Len(keys) : RLeq(f[k], f[keys[j]])
        /\ \A j \in 1..(i - 1) : RLt(f[k], f[keys[j]])

\* the mean of the scores of a methodology over the platforms, and of a platform over
\* the methodologies
MeanOfMethodology(m) ==
    RDiv(SumSeq([i \in 1..Len(platforms) |-> platform_scores[platforms[i]][m].score]), 5)

MeanOfPlatform(p) ==
    RDiv(SumSeq([i \in 1..Len(methodologies) |-> platform_scores[p][methodologies[i]].score]), 4)

\* C6: the insights are exactly four sentences naming the best and the worst methodology
\* and the best and the worst platform by mean score, a tie going to the first
\* methodology or platform in the fixed order, for best and worst alike.
C6_InsightsFirstExtreme ==
    pc = "done" =>
        LET ma == [m \in MethodologySet |-> MeanOfMethodology(m)]
            pa == [p \in PlatformSet |-> MeanOfPlatform(p)]
        IN  /\ Len(insights) = 4
            /\ \E m \in MethodologySet :
                  /\ IsFirstMax(methodologies, ma, m)
                  /\ insights[1].subject = Upper(m) /\ insights[1].avg = Fmt1(ma[m])
            /\ \E m \in MethodologySet :
                  /\ IsFirstMin(methodologies, ma, m)
                  /\ insights[2].subject = Upper(m) /\ insights[2].avg = Fmt1(ma[m])
            /\ \E p \in PlatformSet :
                  /\ IsFirstMax(platforms, pa, p)
                  /\ insights[3].subject = p /\ insights[3].avg = Fmt1(pa[p])
            /\ \E p \in PlatformSet :
                  /\ IsFirstMin(platforms, pa, p)
                  /\ insights[4].subject = p /\ insights[4].avg = Fmt1(pa[p])

\* insights were generated from a table in which two methodologies share the highest
\* mean and two platforms share the lowest and two others the highest
C6_Witness ==
    /\ pc = "done"
    /\ \E m1, m2 \in MethodologySet :
          /\ m1 # m2
          /\ MeanOfMethodology(m1) = MeanOfMethodology(m2)
          /\ \A m \in MethodologySet : RLeq(MeanOfMethodology(m), MeanOfMethodology(m1))
    /\ \E p1, p2 \in PlatformSet :
          /\ p1 # p2
          /\ MeanOfPlatform(p1) = MeanOfPlatform(p2)
          /\ \A p \in PlatformSet : RLeq(MeanOfPlatform(p1), MeanOfPlatform(p))
    /\ \E p1, p2 \in PlatformSet :
          /\ p1 # p2
          /\ MeanOfPlatform(p1) = MeanOfPlatform(p2)
          /\ \A p \in PlatformSet : RLeq(MeanOfPlatform(p), MeanOfPlatform(p1))

\* C7 (as the specification states it): one analyze_company call issues at most 20
\* provider queries.
C7_AtMost20Queries == queries <= 20

\* C7 (amended): one analyze_company call issues at most 35 provider queries, seven for
\* each of the five platforms: four for CIDR and one each for SCVS, ACSO and UIFL.
C7_AtMost35Queries == queries <= 35

\* an analysis returned after 35 provider queries
C7_Witness == pc = "done" /\ queries = 35

\* C8: analyze_url returns either the dictionary with the single key error or the
\* complete dictionary (url, overall_score, the seven categories), never a part of it;
\* a failed fetch and an exception in the extraction or the scoring give the error one.
C8_ErrorOrComplete ==
    pc = "url_done" =>
        /\ \/ DOMAIN url_result = {"error"}
           \/ /\ DOMAIN url_result = {"url", "overall_score"} \cup Categories
              /\ DOMAIN url_result.overall_score = {"value", "interpretation"}
              /\ \A k \in Categories : DOMAIN url_result[k] = {"score", "findings"}
        /\ url_input.fetch # "ok" => DOMAIN url_result = {"error"}
        /\ (\E e \in MetaTagOf(url_input.html) : e.attr = "description-no-content")
              => DOMAIN url_result = {"error"}
        /\ TitleIsNone(url_input.html) => DOMAIN url_result = {"error"}

\* a page was fetched whose title has no string: the second scorer raised after the
\* first had returned, and analyze_url returned the error dictionary
C8_Witness ==
    /\ pc = "url_done"
    /\ url_input.fetch = "ok"
    /\ TitleIsNone(url_input.html)
    /\ MetaTagOf(url_input.html) = {}
    /\ DOMAIN url_result = {"error"}

\* C9: overall_score.value is an integer from 0 to 100, the integer nearest to the mean
\* of the seven category scores, and that mean is never exactly halfway between two integers.
C9_OverallIsRoundedMean ==
    UrlComplete =>
        LET v == url_result.overall_score.value
            s == CategorySum
        IN  /\ v \in 0..100
            /\ 2 * Abs(7 * v - s) < 7
            /\ (2 * s) % 14 # 7

\* a complete result whose mean is not an integer and is rounded up
C9_Witness ==
    /\ UrlComplete
    /\ CategorySum % 7 >= 4
    /\ 7 * url_result.overall_score.value > CategorySum

\* C10: each of the seven page scorers returns a findings list with at least one entry.
C10_FindingsNotEmpty ==
    UrlComplete => \A k \in Categories : Len(url_result[k].findings) >= 1

\* a complete result for a fetched document without any element
C10_Witness ==
    /\ UrlComplete
    /\ url_input.html = {}
    /\ \A k \in Categories : Len(url_result[k].findings) >= 1

\* the number of sub-checks of each page scorer, the closing placeholder included
SubChecks ==
    [k \in Categories |->
        CASE k = "content_quality" -> 4
          [] k = "relevance_and_intent" -> 4
          [] k = "source_credibility" -> 4
          [] k = "content_structure" -> 6
          [] k = "freshness_and_timeliness" -> 3
          [] k = "user_engagement_potential" -> 5
          [] k = "technical_seo" -> 4]

\* C11 (as the specification states it): every sub-check of a page scorer appends a
\* finding whichever branch is taken, so a scorer returns the same number of findings
\* for every input, the H2 and the H3 check of _score_content_structure included.
C11_FindingsPerSubCheck ==
    UrlComplete => \A k \in Categories : Len(url_result[k].findings) = SubChecks[k]

\* the number of occurrences, in a text, of the markers of a list
RECURSIVE TotalOccurrences(_, _)
TotalOccurrences(markers, t) ==
    IF markers = {} THEN 0
    ELSE LET m == CHOOSE x \in markers : TRUE
         IN  CopiesIn(m, t.occ) + TotalOccurrences(markers \ {m}, t)

\* the markers of a list that occur in a text
PresentMarkers(markers, t) == {m \in markers : CopiesIn(m, t.occ) >= 1}

\* C12 (as the specification states it): the marker-driven detectors count every
\* occurrence of every marker, so a marker occurring k times contributes k to the count:
\* context = min(100, 20 x occurrences), actionability = min(100, 30 x occurrences + 50),
\* and likewise structure, summarizability and follow-up potential; accuracy and
\* sentiment compare such counts.
C12_CountsEveryOccurrence ==
    pc = "detected" =>
        /\ signals["context"] = RMin(R(100), R(20 * TotalOccurrences(context_indicators, resp)))
        /\ signals["actionability"] =
              RMin(R(100), R(30 * TotalOccurrences(action_words, resp) + 50))
        /\ signals["structure"] =
              RMin(R(100), R(25 * TotalOccurrences(structure_indicators, resp) + 50))
        /\ signals["summarizability"] =
              RMin(R(100), R(20 * TotalOccurrences(key_phrases, resp) + 40))
        /\ signals["follow_up"] =
              RMin(R(100), R(25 * TotalOccurrences(follow_up_indicators, resp) + 60))
        /\ signals["accuracy"] =
              (IF TotalOccurrences(uncertainty_words, resp)
                     > TotalOccurrences(confidence_words, resp) THEN R(60) ELSE R(85))
        /\ signals["sentiment"] =
              (IF TotalOccurrences(positive_words, resp)
                     > TotalOccurrences(negative_words, resp) THEN R(80)
               ELSE IF TotalOccurrences(negative_words, resp)
                          > TotalOccurrences(positive_words, resp) THEN R(40)
               ELSE R(60))

\* C13: _analyze_completeness is a step function of the word count n of the response:
\* 30 for n < 20, 60 for 20 <= n < 50, 90 for 50 <= n < 200, 100 for n >= 200, and it
\* never decreases when n grows.
C13_CompletenessTiers ==
    pc = "detected" =>
        LET n == resp.words
            c == signals["completeness"]
        IN  /\ (n < 20) => c = R(30)
            /\ (20 <= n /\ n < 50) => c = R(60)
            /\ (50 <= n /\ n < 200) => c = R(90)
            /\ (n >= 200) => c = R(100)
            /\ (n \in {19}) => c = R(30)
            /\ (n \in {20, 49}) => c = R(60)
            /\ (n \in {50, 199}) => c = R(90)
            /\ \A t \in LengthTexts : t.words <= n => RLeq(analyze_completeness(t), c)

\* a response of exactly 200 words was scored 100
C13_Witness ==
    /\ pc = "detected"
    /\ resp.words = 200
    /\ signals["completeness"] = R(100)

\* C14: _analyze_sentiment is 80 when more positive than negative markers occur in the
\* response, 40 when more negative than positive ones occur, and 60 when as many of
\* each occur, none included; two positive markers and no negative one give 80.
C14_SentimentSteps ==
    pc = "detected" =>
        LET pos == Cardinality(PresentMarkers(positive_words, resp))
            neg == Cardinality(PresentMarkers(negative_words, resp))
        IN  /\ (pos > neg) => signals["sentiment"] = R(80)
            /\ (neg > pos) => signals["sentiment"] = R(40)
            /\ (pos = neg) => signals["sentiment"] = R(60)
            /\ (pos = 2 /\ neg = 0) => signals["sentiment"] = R(80)

\* a response holding two positive markers and no negative one was scored 80
C14_Witness ==
    /\ pc = "detected"
    /\ PresentMarkers(positive_words, resp) = {"excellent", "reliable"}
    /\ PresentMarkers(negative_words, resp) = {}
    /\ signals["sentiment"] = R(80)

\* C15: credibility is 40 for an empty source list and min(100, 100 x credible / total
\* + 40) otherwise; verifiability is 30 for an empty list and min(100, 15 x total + 40)
\* otherwise; a single credible source has credibility 100; the SCVS score is the mean
\* of the two, 35 when no source is extracted.
C15_SourceScores ==
    pc = "detected" =>
        LET s == extract_sources(resp)
            total == Len(s)
            credible == Cardinality({i \in 1..total : s[i]})
            cred == signals["credibility"]
            ver == signals["verifiability"]
        IN  /\ (total = 0) => cred = R(40) /\ ver = R(30) /\ scores["scvs"].score = R(35)
            /\ (total > 0) =>
                  /\ cred = (IF 100 * credible + 40 * total >= 100 * total
                             THEN R(100) ELSE Frac(100 * credible + 40 * total, total))
                  /\ ver = (IF 15 * total + 40 >= 100 THEN R(100) ELSE R(15 * total + 40))
            /\ (total = 1 /\ credible = 1) => cred = R(100)
            /\ RMul(scores["scvs"].score, 2) = RAdd(cred, ver)

\* a response naming three sources, one of them credible, was scored
C15_Witness ==
    /\ pc = "detected"
    /\ Len(extract_sources(resp)) = 3
    /\ Cardinality({i \in 1..3 : extract_sources(resp)[i]}) = 1
    /\ signals["credibility"] = Frac(220, 3)
    /\ signals["verifiability"] = R(85)

\* the text of the fetched page, as _score_content_quality receives it
PageText == GetText(Extract(url_input.html))

\* C16: degenerate inputs give a defined default: _get_readability_scores of an empty
\* text is word_count 0, sentence_count 0, avg_sentence_length 0, grade 12;
\* _analyze_relevance of a response without words is 0 and _analyze_readability 50;
\* credibility and verifiability of an empty source list are 40 and 30;
\* _score_technical_seo of a page without images adds nothing for them and one finding.
C16_DegenerateDefaults ==
    /\ (pc = "detected" /\ resp.words = 0) =>
          /\ signals["relevance"] = R(0)
          /\ signals["readability"] = R(50)
    /\ (pc = "detected" /\ extract_sources(resp) = <<>>) =>
          /\ signals["credibility"] = R(40)
          /\ signals["verifiability"] = R(30)
    /\ (pc = "url_done" /\ ReachesScorers(url_input.fetch, url_input.html)
          /\ PageText.words = 0) =>
          readability_scores = [word_count |-> 0, sentence_count |-> 0,
                                avg_sentence_length |-> 0, flesch_kincaid_grade |-> 12]
    /\ (UrlComplete /\ FindAll(Extract(url_input.html), IsImg) = 0) =>
          /\ url_result["technical_seo"].findings[3] = "No images found on the page"
          /\ Len(url_result["technical_seo"].findings) = 4
          /\ url_result["technical_seo"].score =
                40 + (IF FindAll(url_input.html, IsViewport) > 0 THEN 15 ELSE -10)
                   + (IF HasCanonicalHref(url_input.html) THEN 15 ELSE 0)

\* a page whose text is empty and that holds no image was analysed
C16_Witness ==
    /\ UrlComplete
    /\ PageText.words = 0
    /\ FindAll(Extract(url_input.html), IsImg) = 0
    /\ readability_scores.flesch_kincaid_grade = 12
    /\ url_result["technical_seo"].findings[3] = "No images found on the page"

\* the fetched page, as requests.get returned it, and what the scorers receive
FetchedPage == url_input.html

ScoredSoup == Extract(url_input.html)

\* C17 (as the specification states it): the content_structure score of an analysed page
\* is clamp(30 + H1 rule + 10 if any H2 + 5 if any H3 + 20 if the fetched page holds a
\* JSON-LD script + (15 if viewport meta else -10)).
C17_JsonLdBonus ==
    UrlComplete =>
        LET h1_tags == FindAll(ScoredSoup, IsH1)
            h1_rule == IF h1_tags = 1 THEN 20 ELSE IF h1_tags > 1 THEN -10 ELSE -15
        IN  url_result["content_structure"].score =
                Clamp(30 + h1_rule
                      + (IF FindAll(ScoredSoup, IsH2) > 0 THEN 10 ELSE 0)
                      + (IF FindAll(ScoredSoup, IsH3) > 0 THEN 5 ELSE 0)
                      + (IF FindAll(FetchedPage, IsSchemaScript) > 0 THEN 20 ELSE 0)
                      + (IF FindAll(ScoredSoup, IsViewport) > 0 THEN 15 ELSE -10))

\* C18 (as the specification states it): the source_credibility score of an analysed
\* page is clamp(55 + (20 if HTTPS else -10) + (15 if the fetched page holds a
\* contact/about/team link, else -5) + (10 if more than 5 external links, 5 if 1 to 5,
\* else 0)), the links being those of the fetched page wherever they are placed.
C18_LinksOfFetchedPage ==
    UrlComplete =>
        LET external_links == FindAll(FetchedPage, IsExternalLink)
        IN  url_result["source_credibility"].score =
                Clamp(55 + (IF IsHttps(url_input.url) THEN 20 ELSE -10)
                      + (IF FindAll(FetchedPage, IsContactLink) > 0 THEN 15 ELSE -5)
                      + (IF external_links > 5 THEN 10
                         ELSE IF external_links > 0 THEN 5 ELSE 0))

\* C19: in _score_freshness_and_timeliness a Last-Modified header that is present but
\* cannot be parsed is non-fatal: it changes no score, appends one finding, the
\* publish-date check still runs and the result is 40 or 50; a parsable header
\* contributes +25 when its age is under 90 days, +15 from 90 to 364 days, -10 from 365
\* days on, and an absent header contributes 0.
C19_UnparsableHeaderNonFatal ==
    UrlComplete =>
        LET result == url_result["freshness_and_timeliness"]
            last_modified == url_input.last_modified
            header_delta ==
                IF last_modified.kind = "date"
                THEN IF last_modified.age_days < 90 THEN 25
                     ELSE IF last_modified.age_days < 365 THEN 15 ELSE -10
                ELSE 0
            pub_date_delta == IF FindAll(ScoredSoup, IsPubDate) > 0 THEN 10 ELSE 0
        IN  /\ result.score = Clamp(40 + header_delta + pub_date_delta)
            /\ Len(result.findings) = 3
            /\ last_modified.kind = "unparsable" =>
                   /\ result.score \in {40, 50}
                   /\ result.findings[1] = "Could not parse Last-Modified header"
                   /\ result.findings[2] =
                          IF pub_date_delta = 10 THEN "Publication date metadata detected"
                          ELSE "No explicit publication date metadata found"
            /\ last_modified.kind = "absent" =>
                   result.findings[1] = "No Last-Modified HTTP header found"

\* an unparsable header on a page that carries publication date metadata: score 50
C19_Witness ==
    /\ UrlComplete
    /\ url_input.last_modified.kind = "unparsable"
    /\ url_result["freshness_and_timeliness"].score = 50
    /\ url_result["freshness_and_timeliness"].findings[2] = "Publication date metadata detected"

\* the response to the i-th CIDR query of the k-th platform in the current analysis
CidrResponse(k, i) ==
    QueryPlatform(platforms[k], CidrQueries(company_name)[i], company_name,
                  AnswerOf(memo, <<k, 1, i>>))

\* the i-th CIDR query of the k-th platform was sent (the simulated providers answer
\* every query, the calls of the OpenAI client are recorded)
CidrAsked(k, i) == UsesOpenAI(platforms[k]) => <<k, 1, i>> \in DOMAIN memo

\* the CIDR queries of the k-th platform whose scoring raised
CidrRaised(k) ==
    {i \in 1..Len(CidrQueries(company_name)) : CidrAsked(k, i) /\ Raises(CidrResponse(k, i))}

Least(S) == CHOOSE i \in S : \A j \in S : i <= j

\* the number of CIDR queries the k-th platform was sent
CidrSent(k) ==
    IF CidrRaised(k) = {} THEN Len(CidrQueries(company_name)) ELSE Least(CidrRaised(k))

RECURSIVE QueriesUpTo(_)
QueriesUpTo(k) == IF k = 0 THEN 0 ELSE QueriesUpTo(k - 1) + CidrSent(k) + 3

C21_StrictlySequential ==
    [][LET order == <<"chatgpt", "claude", "perplexity", "arc_search", "searchgpt">>
           within == <<"cidr", "scvs", "acso", "uifl">>
           scored == IF pc = "sleep" THEN pi ELSE pi - 1
       IN  /\ pc \in {"query", "sleep"} =>
                 DOMAIN platform_scores = {order[k] : k \in 1..scored}
           /\ (pc = "query" /\ ~(mi = 1 /\ qi = 1)) =>
                 DOMAIN scores = {within[j] : j \in 1..(mi - 1)}
           /\ queries' = queries + 1 =>
                 /\ pc = "query"
                 /\ platforms[pi] = order[pi]
                 /\ methodologies[mi] = within[mi]
           /\ (pc = "query" /\ pc' = "query") =>
                 /\ pi' = pi
                 /\ \/ mi' = mi /\ qi' = qi + 1
                    \/ mi' = mi + 1 /\ qi' = 1
           /\ (pc = "query" /\ pc' # "query") =>
                 /\ pc' = "sleep"
                 /\ mi = Len(within)
                 /\ pi' = pi
                 /\ DOMAIN platform_scores' = DOMAIN platform_scores \cup {order[pi]}
                 /\ DOMAIN platform_scores'[order[pi]] = {within[j] : j \in 1..Len(within)}
           /\ pc = "sleep" =>
                 /\ queries' = queries
                 /\ platform_scores' = platform_scores
                 /\ \/ pi < Len(order) /\ pi' = pi + 1 /\ pc' = "query" /\ mi' = 1 /\ qi' = 1
                    \/ pi = Len(order) /\ pc' = "insights"
           /\ pc' = "insights" =>
                 /\ pc = "sleep"
                 /\ DOMAIN platform_scores = {order[k] : k \in 1..Len(order)}
           /\ pc' = "done" => pc = "insights" /\ queries' = queries
      ]_vars

\* the third methodology of the second platform is about to be queried: chatgpt is
\* scored and the delay after it has elapsed, cidr and scvs of claude are scored
C21_Witness ==
    /\ pc = "query"
    /\ pi = 2
    /\ mi = 3
    /\ DOMAIN platform_scores = {"chatgpt"}
    /\ DOMAIN scores = {"cidr", "scvs"}
    /\ queries = 7 + 5

\* the sentences of a response that ends each sentence with a period and holds no other
\* period (no URL, no domain name): as many as it has periods
SentenceCount(t) == t.dots

\* C22 (as the specification states it): _analyze_readability returns 90 when the
\* average number of words per sentence is in [10,25], 70 when it is otherwise in
\* [5,35], and 50 otherwise; a single sentence of 10 to 25 words ending with a period
\* scores 90.
C22_ReadabilityPerSentence ==
    (pc = "detected" /\ resp.words > 0 /\ SentenceCount(resp) > 0
        /\ resp.urls = <<>> /\ resp.hosts = <<>>) =>
        LET avg_sentence_length == Frac(resp.words, SentenceCount(resp))
        IN  signals["readability"] =
                IF RLeq(R(10), avg_sentence_length) /\ RLeq(avg_sentence_length, R(25))
                THEN R(90)
                ELSE IF RLeq(R(5), avg_sentence_length) /\ RLeq(avg_sentence_length, R(35))
                     THEN R(70)
                     ELSE R(50)

Characters == {"a", "e", "E", "l", "t"}

\* str.lower() on one character
Lower(ch) == IF ch = "E" THEN "e" ELSE ch

vowels == {"a", "e", "i", "o", "u", "y"}

Words == UNION {[1..k -> Characters] : k \in 1..MaxLetters}

\* count as it stands before `if count == 0`
syllable_count(w) ==
    LET lowered == [i \in 1..Len(w) |-> Lower(w[i])]
        n == Len(lowered)
        first == IF lowered[1] \in vowels THEN 1 ELSE 0
        groups == Cardinality({index \in 2..n :
                                 lowered[index] \in vowels /\ lowered[index - 1] \notin vowels})
        silent_e == IF lowered[n] = "e" THEN -1 ELSE 0
        le_ending == IF n > 2 /\ lowered[n - 1] = "l" /\ lowered[n] = "e"
                        /\ lowered[n - 2] \notin vowels
                     THEN 1 ELSE 0
    IN  first + groups + silent_e + le_ending

\* _count_syllables returning count without the test for zero
count_syllables_unfloored(w) == syllable_count(w)

count_syllables(w) ==
    LET c == syllable_count(w) IN IF c = 0 THEN c + 1 ELSE c

InitSyllables ==
    /\ InitAnalyzers
    /\ word \in Words
    /\ count = 0
    /\ InitRoutes

CountSyllables ==
    /\ pc = "idle"
    /\ count' = count_syllables(word)
    /\ pc' = "counted"
    /\ UNCHANGED <<run, company_name, pi, mi, qi, total_score, scores, platform_scores,
                   insights, signals, queries, deviations, memo, failed, first_result,
                   url_input, url_result, resp, readability_scores, word>>
    /\ UNCHANGED routeVars

NextSyllables == CountSyllables

SpecSyllables == InitSyllables /\ [][NextSyllables]_vars

\* C24: for every non-empty word _count_syllables returns an integer >= 1: the count of
\* vowel groups, minus one for a final 'e', plus one for a final 'le' after a non-vowel,
\* is never negative before the test for zero, so raising a zero count to 1 is enough.
C24_SyllablesAtLeastOne ==
    pc = "counted" =>
        /\ count \in Nat
        /\ count >= 1
        /\ syllable_count(word) >= 0
        /\ count = Max2(1, syllable_count(word))

\* the word "E": its only vowel group is removed as a final e, the count is 0 before
\* the test for zero and 1 is returned
C24_Witness ==
    /\ pc = "counted"
    /\ word = <<"E">>
    /\ syllable_count(word) = 0
    /\ count = 1

\* the base offset each page scorer adds before it clamps
BaseOffset ==
    [k \in Categories |->
        CASE k = "content_quality" -> 50
          [] k = "relevance_and_intent" -> 45
          [] k = "source_credibility" -> 55
          [] k = "content_structure" -> 30
          [] k = "freshness_and_timeliness" -> 40
          [] k = "user_engagement_potential" -> 45
          [] k = "technical_seo" -> 40]

\* the score delta applied on the branch that appends the finding f
FindingDelta(f) ==
    CASE f = "Low word count" -> -20
      [] f = "Moderate word count" -> 10
      [] f = "Good word count" -> 20
      [] f = "Excellent readability" -> 15
      [] f = "Good readability" -> 10
      [] f = "Readability may be challenging" -> -10
      [] f = "Multimedia detected" -> 15
      [] f = "No multimedia detected" -> -5
      [] f = "Keywords found in page title" -> 20
      [] f = "Keywords found in headings" -> 20
      [] f = "Content aligns with meta description" -> 15
      [] f = "SSL/TLS certificate detected" -> 20
      [] f = "No SSL/TLS certificate detected" -> -10
      [] f = "Contact/About/Team links found" -> 15
      [] f = "No obvious Contact/About/Team links found" -> -5
      [] f = "Numerous external links" -> 10
      [] f = "Some external links" -> 5
      [] f = "Single H1 tag found" -> 20
      [] f = "Multiple H1 tags found" -> -10
      [] f = "No H1 tag found" -> -15
      [] f = "H2 tags found" -> 10
      [] f = "H3 tags found" -> 5
      [] f = "JSON-LD schema script(s) detected" -> 20
      [] f = "Mobile viewport meta tag detected" -> 15
      [] f = "Mobile viewport meta tag present" -> 15
      [] f = "Mobile viewport meta tag missing" -> -10
      [] f = "Content recently modified" -> 25
      [] f = "Content modified within the last year" -> 15
      [] f = "Content last modified over a year ago" -> -10
      [] f = "Publication date metadata detected" -> 10
      [] f = "Call-to-action elements detected" -> 20
      [] f = "Few or no clear call-to-action elements found" -> -10
      [] f = "form(s) detected" -> 15
      [] f = "Social sharing buttons detected" -> 10
      [] f = "Embedded video content detected" -> 10
      [] f = "Canonical tag found" -> 15
      [] f = "Most images have alt text" -> 10
      [] f = "Some images have alt text" -> 5
      [] OTHER -> 0

\* score + base as it stands before max(0, min(100, ...)), from the branches taken
RECURSIVE Unclamped(_, _)
Unclamped(base, findings) ==
    IF findings = <<>> THEN base
    ELSE FindingDelta(Head(findings)) + Unclamped(base, Tail(findings))

\* the range of scores the specification gives for each page scorer
ScoreRange ==
    [k \in Categories |->
        CASE k = "content_quality" -> 15..100
          [] k = "relevance_and_intent" -> 45..100
          [] k = "source_credibility" -> 40..100
          [] k = "content_structure" -> 5..100
          [] k = "freshness_and_timeliness" -> 30..75
          [] k = "user_engagement_potential" -> 35..100
          [] k = "technical_seo" -> 30..80]

\* C25: for each of the seven page scorers the base offset plus the deltas applied lies
\* in [0,100] already, so the final clamp never changes the value; the scores lie in
\* 15..100 (content quality), 45..100 (relevance), 40..100 (source credibility), 5..100
\* (content structure), 30..75 (freshness), 35..100 (engagement), 30..80 (technical SEO).
C25_ClampNeverChanges ==
    UrlComplete =>
        /\ \A k \in Categories :
              LET before == Unclamped(BaseOffset[k], url_result[k].findings)
              IN  /\ before \in 0..100
                  /\ url_result[k].score = before
                  /\ url_result[k].score \in ScoreRange[k]
        /\ LET direct == score_content_structure(FetchedPage)
               before == Unclamped(BaseOffset["content_structure"], direct.findings)
           IN  /\ before \in 0..100
               /\ direct.score = before
               /\ direct.score \in ScoreRange["content_structure"]

\* the page with every rewarded feature was analysed over HTTPS: four scorers reach 100
\* before the clamp, and _score_content_structure does on the page as fetched
C25_Witness ==
    /\ UrlComplete
    /\ url_input.html = FullPage
    /\ url_result["content_quality"].score = 100
    /\ url_result["relevance_and_intent"].score = 100
    /\ url_result["source_credibility"].score = 100
    /\ url_result["user_engagement_potential"].score = 100
    /\ url_result["technical_seo"].score = 80
    /\ score_content_structure(FetchedPage).score = 100

\* title and meta_description as analyze_url extracts them from the fetched page
PageTitle == TitleOf(FetchedPage)

PageMetaDescription ==
    IF MetaTagOf(FetchedPage) = {} THEN NoMetaDescription
    ELSE MetaContent(CHOOSE e \in MetaTagOf(FetchedPage) : TRUE)

\* C26: without an explicit keyword list _score_relevance_and_intent derives the keywords
\* from the title and the meta description, so whenever the title holds an alphanumeric
\* token that is not a stop word the +20 title bonus is granted and the score is at least
\* 65; a page without a title element (title 'No title found') always receives the
\* bonus; and when the derived keyword set is empty the score is exactly 45.
C26_TitleBonusFromDerivedKeywords ==
    UrlComplete =>
        LET result == url_result["relevance_and_intent"]
            keywords == (PageTitle \cup PageMetaDescription) \ stop_words
        IN  /\ PageTitle \ stop_words # {} =>
                  /\ result.findings[1] = "Keywords found in page title"
                  /\ result.score >= 65
            /\ FetchedPage \cap TitleElements = {} =>
                  /\ PageTitle = {"no", "title", "found"}
                  /\ result.findings[1] = "Keywords found in page title"
                  /\ result.score >= 65
            /\ keywords = {} =>
                  /\ result.score = 45
                  /\ result.findings[1] = "No prominent keywords found in page title"
                  /\ result.findings[2] = "No prominent keywords found in headings"
                  /\ result.findings[3] = "Content may not fully align"

\* a page without title element, whose headings hold none of the derived keywords, was
\* analysed: 45 + 20
C26_Witness ==
    /\ UrlComplete
    /\ FetchedPage \cap TitleElements = {}
    /\ url_result["relevance_and_intent"].findings[1] = "Keywords found in page title"
    /\ url_result["relevance_and_intent"].score = 65

(***************************************************************************)
(* POST /analyze (routes/analysis.py, 10-52).  A request is handled in     *)
(* three steps, between which other requests may run: the check of the     *)
(* table, the run of the analyzer, and the commit of the new row.          *)
(***************************************************************************)
\* a row of the table; analysis_date defaults to datetime.utcnow at the insert
CompanyAnalysis(id, name, analysis_date) ==
    [id |-> id, company_name |-> name, analysis_date |-> analysis_date]

\* CompanyAnalysis.query.filter_by(company_name=company_name): the ids of the rows
FilterByCompanyName(name) ==
    {i \in 1..Len(company_analyses) : company_analyses[i].company_name = name}

\* the body is read, the name stripped and checked, the table queried; .first() has no
\* ORDER BY, so any matching row may be the one returned
PostAnalyze(r, raw) ==
    LET name == Strip(raw)
        existing_analysis == FilterByCompanyName(name)
    IN  /\ handlers[r].pc = "waiting"
        /\ IF name = ""
           THEN handlers' = [handlers EXCEPT ![r] = Handler("done", name, 400, 0, now)]
           ELSE IF existing_analysis # {}
                THEN \E i \in existing_analysis :
                        handlers' = [handlers EXCEPT ![r] = Handler("done", name, 200, i, now)]
                ELSE handlers' = [handlers EXCEPT ![r] = Handler("analysing", name, 0, 0, now)]
        /\ UNCHANGED <<company_analyses, now, analyzer_runs, interactions, flashed, word, count>>
        /\ UNCHANGED analyzerVars

\* analyzer = AIAnalyzer(); analysis_results = analyzer.analyze_company(company_name)
RunAnalyzer(r) ==
    /\ handlers[r].pc = "analysing"
    /\ analyzer_runs' = [analyzer_runs EXCEPT ![handlers[r].company_name] = @ + 1]
    /\ handlers' = [handlers EXCEPT ![r].pc = "saving"]
    /\ UNCHANGED <<company_analyses, now, interactions, flashed, word, count>>
    /\ UNCHANGED analyzerVars

\* db.session.add(analysis); db.session.commit(); return ..., 201
SaveAnalysis(r) ==
    LET id == Len(company_analyses) + 1
    IN  /\ handlers[r].pc = "saving"
        /\ company_analyses' =
              Append(company_analyses, CompanyAnalysis(id, handlers[r].company_name, now))
        /\ handlers' = [handlers EXCEPT ![r] =
                           Handler("done", handlers[r].company_name, 201, id, now)]
        /\ UNCHANGED <<now, analyzer_runs, interactions, flashed, word, count>>
        /\ UNCHANGED analyzerVars

\* twelve hours pass
Tick ==
    /\ now + 12 <= MaxHours
    /\ now' = now + 12
    /\ UNCHANGED <<company_analyses, handlers, analyzer_runs, interactions, flashed, word, count>>
    /\ UNCHANGED analyzerVars

NextAnalyze ==
    \/ \E r \in 1..MaxRequests, raw \in RequestNames : PostAnalyze(r, raw)
    \/ \E r \in 1..MaxRequests : RunAnalyzer(r)
    \/ \E r \in 1..MaxRequests : SaveAnalysis(r)
    \/ Tick

SpecAnalyze == Init /\ [][NextAnalyze]_vars

\* C27 (as the specification states it): POST /analyze answers from cache only when a
\* stored analysis of the same company name was produced within the last 24 hours; when
\* the only stored analysis of the name is older, a new analysis is performed and stored.
C27_CacheWithin24Hours ==
    \A r \in 1..MaxRequests :
        handlers[r].status = 200 =>
            /\ company_analyses[handlers[r].served].company_name = handlers[r].company_name
            /\ handlers[r].at - company_analyses[handlers[r].served].analysis_date <= 24

\* C28 (as the specification states it): for every interleaving of POST /analyze requests
\* with the same non-empty company name, at most one CompanyAnalysis row is ever stored
\* for the name and the analyzer runs at most once for it; a request with an empty or
\* whitespace-only name stores nothing and runs no analysis.
C28_AtMostOneRowPerName ==
    /\ \A name \in StoredNames :
          /\ Cardinality(FilterByCompanyName(name)) <= 1
          /\ analyzer_runs[name] <= 1
    /\ \A r \in 1..MaxRequests :
          handlers[r].status = 400 =>
              /\ handlers[r].company_name = ""
              /\ FilterByCompanyName("") = {}

(***************************************************************************)
(* log_interaction and rate_interaction (main.py) over ai_interactions.    *)
(***************************************************************************)
\* the 'rating' of the JSON body of log_interaction: absent or null, or an integer
JsonRatings == {{}, {0}, {1}, {5}, {6}}

\* the 'user_input' of the JSON body: a text, absent (the default ''), or null
JsonUserInputs == {"question", "", "null"}

\* the 'rating' field of the form of rate_interaction
FormRatings == {"missing", "abc", "0", "1", "5", "6"}

\* request.form.get('rating', type=int): None when the field is missing or not an integer
FormInt(field) ==
    CASE field = "0" -> {0}
      [] field = "1" -> {1}
      [] field = "5" -> {5}
      [] field = "6" -> {6}
      [] OTHER -> {}

\* a row of ai_interactions
AIInteraction(id, user_input, rating) ==
    [id |-> id, user_input |-> user_input, rating |-> rating]

\* what the last request was and what it answered
Response(route, interaction_id, rating, message) ==
    [route |-> route, interaction_id |-> interaction_id, rating |-> rating, message |-> message]

\* POST /log_interaction: the row is built from the body as it is; user_input is
\* nullable=False, so a null makes the commit fail and the session is rolled back
LogInteraction(user_input, rating) ==
    LET id == Len(interactions) + 1
    IN  /\ Len(interactions) < MaxInteractions
        /\ IF user_input = "null"
           THEN /\ interactions' = interactions
                /\ flashed' = Response("log_interaction", 0, rating, "Error logging interaction")
           ELSE /\ interactions' = Append(interactions, AIInteraction(id, user_input, rating))
                /\ flashed' = Response("log_interaction", id, rating,
                                       "Interaction logged successfully")
        /\ UNCHANGED <<company_analyses, handlers, now, analyzer_runs, word, count>>
        /\ UNCHANGED analyzerVars

\* POST /rate_interaction/<interaction_id>: get_or_404 raises inside the try for an
\* unknown id; 'if rating and 1 <= rating <= 5' guards the only assignment
RateInteraction(interaction_id, field) ==
    LET rating == FormInt(field)
    IN  /\ IF interaction_id \notin 1..Len(interactions)
           THEN /\ interactions' = interactions
                /\ flashed' = Response("rate_interaction", interaction_id, rating,
                                       "Error saving rating")
           ELSE IF rating # {} /\ rating # {0} /\ rating \subseteq 1..5
                THEN /\ interactions' = [interactions EXCEPT ![interaction_id].rating = rating]
                     /\ flashed' = Response("rate_interaction", interaction_id, rating,
                                            "Rating saved successfully")
                ELSE /\ interactions' = interactions
                     /\ flashed' = Response("rate_interaction", interaction_id, rating,
                                            "Invalid rating. Please select a rating between 1 and 5.")
        /\ UNCHANGED <<company_analyses, handlers, now, analyzer_runs, word, count>>
        /\ UNCHANGED analyzerVars

NextInteractions ==
    \/ \E user_input \in JsonUserInputs, rating \in JsonRatings : LogInteraction(user_input, rating)
    \/ \E interaction_id \in 1..MaxInteractions, field \in FormRatings :
          RateInteraction(interaction_id, field)

SpecInteractions == Init /\ [][NextInteractions]_vars

\* C29 (as the specification states it): after any sequence of log_interaction and
\* rate_interaction requests the stored rating of every AIInteraction is absent or an
\* integer in 1..5, and a rate_interaction request whose rating is missing or outside
\* 1..5 saves nothing.
C29_StoredRatingInRange ==
    /\ \A i \in 1..Len(interactions) : interactions[i].rating \subseteq 1..5
    /\ (flashed.route = "rate_interaction" /\ (flashed.rating = {} \/ ~(flashed.rating \subseteq 1..5)))
          => flashed.message # "Rating saved successfully"

====
